---- MODULE Spec2Model ----
(***************************************************************************)
(* Scheduled-post conflict resolution and dispatch engine of the Telegram  *)
(* posting bot: the request path of bot.py (select destination, time       *)
(* input, content, confirm, withdraw), the storage layer of database.py    *)
(* and the periodic dispatcher of pending_post_processor.py.               *)
(*                                                                         *)
(* Time is a whole number of abstract instants.  A handler of bot.py runs  *)
(* to completion before the next update is handled (the Application is     *)
(* built without concurrent updates), so each handler is one action.  The  *)
(* dispatcher is a coroutine on the same event loop: it yields at every    *)
(* awaited Telegram call, so it is split at those awaits.                  *)
(***************************************************************************)
EXTENDS Integers, Sequences, FiniteSets, TLC

\* ------------------------------------------------------------------ bounds
NumServers == 2
NumUsers == 2
MaxTime == 1
MaxGap == 2
MaxPosts == 2
MaxMsgs == 2
MaxImmediate == 1
\* the calendar of the clock that handle_text_input reads
SecPerMin == 2
MinPerHour == 2
HoursPerDay == 2
DaysPerMonth == 2
MonthsPerYear == 2
\* minutes the display timezone is ahead of UTC
IstOffset == 3

ADMIN_ID == 1

Servers == 1..NumServers
Users == 1..NumUsers
Times == 0..MaxTime
Gaps == 0..MaxGap

\* Python's None and a present value
None == <<>>
Some(v) == <<v>>
Val(o) == o[1]

Texts == {"", "Hello"}

\* classification of the exception a Telegram send raises, by its message:
\* "invalid_url" contains both 'invalid' and 'url'; "not_found" is 'chat not
\* found', "transient" a timeout or a network error, "other" anything else
Failures == {"invalid_url", "not_found", "transient", "other"}
Outcomes == {"ok"} \cup Failures

VARIABLES
    now,             \* datetime.utcnow()
    CHANNEL_IDS,     \* config.CHANNEL_IDS: number of configured channels
    server_config,   \* db.server_config, by server_id
    pending_posts,   \* db.pending_posts: set of documents
    nextId,          \* next _id the collection hands out
    posts,           \* db.posts: sequence of PostRecords, in insertion order
    channel,         \* messages the channels accepted, in order
    user_data,       \* context.user_data, by user
    confirmButtons,  \* confirm buttons shown in each user's chat (server ids)
    reply,           \* the answer this step gave to an operator (NoReply
                     \* when the step was not a request handler)
    pc,              \* dispatcher: "idle", "send" or "notify"
    tickList,        \* dispatcher: the rest of the ready list it fetched
    rendered,        \* dispatcher: content and markup rendered for the head
    stage,           \* dispatcher: <<outer call, inner attempt>> of the ladder
    channel_message_id, \* dispatcher: what send_to_channel returned
    ncalls,          \* history: delivery calls made for the head in this tick
    logged,          \* the error lines the dispatcher logged in this step
    headWithdrawn,   \* history: the head's processing began after its
                     \* withdrawal was acknowledged
    withdrawnAck,    \* history: ids whose withdrawal was acknowledged
    sentEver         \* history: ids that were marked sent

vars == <<now, CHANNEL_IDS, server_config, pending_posts, nextId, posts,
          channel, user_data, confirmButtons, reply, pc, tickList, rendered,
          stage, channel_message_id, ncalls, logged, headWithdrawn,
          withdrawnAck, sentEver>>

dbVars == <<server_config, pending_posts, nextId, posts>>
tickVars == <<pc, tickList, rendered, stage, channel_message_id, ncalls,
              headWithdrawn>>
sessionVars == <<user_data, confirmButtons>>
histVars == <<withdrawnAck, sentEver>>

\* ------------------------------------------------------------ helpers
Abs(x) == IF x < 0 THEN 0 - x ELSE x

\* key of the ascending sort on scheduled_time (insertion order on ties)
\* mutant: the order of insertion, as find() without sort gives it
Before_by_id(p, q) == p._id <= q._id

Before(p, q) ==
    \/ p.scheduled_time < q.scheduled_time
    \/ p.scheduled_time = q.scheduled_time /\ p._id <= q._id

RECURSIVE SortByTime(_)
SortByTime(S) ==
    IF S = {} THEN <<>>
    ELSE LET first == CHOOSE p \in S : \A q \in S : Before(p, q)
         IN  <<first>> \o SortByTime(S \ {first})

\* ------------------------------------------------------------ database.py
get_server_config(server_id) == server_config[server_id]

\* mutant: every destination counts as enabled
is_server_posting_enabled_always(server_id) == TRUE

is_server_posting_enabled(server_id) ==
    get_server_config(server_id).posting_enabled

get_last_post(server_id) ==
    LET mine == {i \in 1..Len(posts) : posts[i].server_id = server_id}
    IN  IF mine = {} THEN None
        ELSE Some(posts[CHOOSE i \in mine :
                          \A j \in mine : posts[j].posted_at <= posts[i].posted_at])

\* mutant: the ready list without the filter on the target instant
get_pending_posts_ready_any_time ==
    SortByTime({p \in pending_posts : p.status = "pending"})

\* mutant: the ready list without the filter on the status
get_pending_posts_ready_any_status ==
    SortByTime({p \in pending_posts : p.scheduled_time <= now})

\* mutant: an item is ready only at its target instant, not after it
get_pending_posts_ready_on_time ==
    SortByTime({p \in pending_posts :
                  p.status = "pending" /\ p.scheduled_time = now})

get_pending_posts_ready ==
    SortByTime({p \in pending_posts :
                  p.status = "pending" /\ p.scheduled_time <= now})

get_pending_posts_by_server(server_id) ==
    SortByTime({p \in pending_posts :
                  p.server_id = server_id /\ p.status = "pending"})

\* mutant: a conflict check that never finds a conflict
check_time_conflict_never(server_id, proposed_time) ==
    [ok |-> TRUE, next_available |-> None]

\* mutant: a conflict check that suggests the conflicting instant itself
check_time_conflict_no_gap(server_id, proposed_time) ==
    LET min_gap == get_server_config(server_id).min_time_gap
        hit == SelectSeq(get_pending_posts_by_server(server_id),
                 LAMBDA p : Abs(proposed_time - p.scheduled_time) < min_gap)
    IN  IF hit # <<>>
        THEN [ok |-> FALSE, next_available |-> Some(Head(hit).scheduled_time)]
        ELSE [ok |-> TRUE, next_available |-> None]

\* returns [ok, next_available]: ok = FALSE is a conflict
\* mutant: an instant exactly min_gap away counts as a conflict
check_time_conflict_inclusive(server_id, proposed_time) ==
    LET min_gap == get_server_config(server_id).min_time_gap
        hit == SelectSeq(get_pending_posts_by_server(server_id),
                 LAMBDA p : Abs(proposed_time - p.scheduled_time) <= min_gap)
    IN  IF hit # <<>>
        THEN [ok |-> FALSE,
              next_available |-> Some(Head(hit).scheduled_time + min_gap)]
        ELSE [ok |-> TRUE, next_available |-> None]

check_time_conflict(server_id, proposed_time) ==
    LET min_gap == get_server_config(server_id).min_time_gap
        pend == get_pending_posts_by_server(server_id)
        hit == SelectSeq(pend,
                 LAMBDA p : Abs(proposed_time - p.scheduled_time) < min_gap)
        last_post == get_last_post(server_id)
    IN  IF hit # <<>>
        THEN [ok |-> FALSE, next_available |-> Some(Head(hit).scheduled_time + min_gap)]
        ELSE IF last_post # None
                /\ Abs(proposed_time - Val(last_post).posted_at) < min_gap
        THEN [ok |-> FALSE, next_available |-> Some(Val(last_post).posted_at + min_gap)]
        ELSE [ok |-> TRUE, next_available |-> None]

PostRecord(server_id, user_id, message_id) ==
    [server_id |-> server_id, user_id |-> user_id,
     channel_message_id |-> message_id, posted_at |-> now]

save_post(server_id, user_id, message_id) ==
    Append(posts, PostRecord(server_id, user_id, message_id))

save_pending_post(server_id, user_id, message_text, scheduled_time, photo_id) ==
    pending_posts \cup
      {[_id |-> nextId, server_id |-> server_id, user_id |-> user_id,
        message_text |-> message_text, photo_id |-> photo_id,
        scheduled_time |-> scheduled_time, status |-> "pending"]}

mark_pending_post_sent(pending_post_id) ==
    {IF p._id = pending_post_id THEN [p EXCEPT !.status = "sent"] ELSE p :
       p \in pending_posts}

\* mutant: a delete that removes nothing
delete_pending_post_nothing(pending_post_id) == pending_posts

delete_pending_post(pending_post_id) ==
    {p \in pending_posts : p._id # pending_post_id}

find_one(pending_post_id) ==
    LET hit == {p \in pending_posts : p._id = pending_post_id}
    IN  IF hit = {} THEN None ELSE Some(CHOOSE p \in hit : TRUE)

\* the time-slot check of handle_text_input for a request that is not "now":
\* first the last post, then check_time_conflict
TimeSlotCheck(server_id, proposed_time) ==
    LET min_gap == get_server_config(server_id).min_time_gap
        last_post == get_last_post(server_id)
        conflict == check_time_conflict(server_id, proposed_time)
    IN  IF last_post # None
           /\ Abs(proposed_time - Val(last_post).posted_at) < min_gap
        THEN [busy |-> TRUE, next_available |-> Some(Val(last_post).posted_at + min_gap)]
        ELSE IF ~conflict.ok
        THEN [busy |-> TRUE, next_available |-> conflict.next_available]
        ELSE [busy |-> FALSE, next_available |-> None]

\* ------------------------------------------------------------ rendering
\* str.strip() on the values a button field takes here
Strip(s) == IF s = " " THEN "" ELSE s

\* mutant: the footer follows the text with no blank line between them
RenderContent_joined(message_text, footer) == message_text \o footer

RenderContent(message_text, footer) ==
    IF footer # ""
    THEN IF message_text # "" THEN message_text \o "\n\n" \o footer ELSE footer
    ELSE message_text

\* mutant: a slot contributes a button as soon as its label is set
BuildMarkup_label_only(config_data) ==
    LET row1 == IF Strip(config_data.button1_text) # ""
                THEN <<[text |-> Strip(config_data.button1_text),
                        url |-> Strip(config_data.button1_url)]>> ELSE <<>>
        row2 == IF Strip(config_data.button2_text) # ""
                THEN <<[text |-> Strip(config_data.button2_text),
                        url |-> Strip(config_data.button2_url)]>> ELSE <<>>
    IN  IF row1 \o row2 # <<>> THEN Some(row1 \o row2) ELSE None

\* the rows of the InlineKeyboardMarkup, None when no slot contributes
BuildMarkup(config_data) ==
    LET btn1_text == Strip(config_data.button1_text)
        btn1_url == Strip(config_data.button1_url)
        btn2_text == Strip(config_data.button2_text)
        btn2_url == Strip(config_data.button2_url)
        row1 == IF btn1_text # "" /\ btn1_url # ""
                THEN <<[text |-> btn1_text, url |-> btn1_url]>> ELSE <<>>
        row2 == IF btn2_text # "" /\ btn2_url # ""
                THEN <<[text |-> btn2_text, url |-> btn2_url]>> ELSE <<>>
        buttons == row1 \o row2
    IN  IF buttons # <<>> THEN Some(buttons) ELSE None

get_channel_id(server_id) ==
    IF CHANNEL_IDS = 0 THEN None
    ELSE IF 0 <= server_id - 1 /\ server_id - 1 < CHANNEL_IDS
    THEN Some(server_id) ELSE None

\* a message accepted by a channel; item and at are history fields: the
\* pending _id it was sent for (0 - k for the k-th immediate post) and the
\* instant of the delivery
Message(chat, item, text, markup) ==
    [chat |-> chat, item |-> item, text |-> text, markup |-> markup,
     at |-> now]

DefaultConfig ==
    [posting_enabled |-> TRUE, min_time_gap |-> MaxGap, footer_text |-> "",
     button1_text |-> "", button1_url |-> "",
     button2_text |-> "", button2_url |-> ""]

DecoratedConfig ==
    [DefaultConfig EXCEPT !.footer_text = "Thanks!", !.min_time_gap = 1,
                          !.button1_text = "Go", !.button1_url = "http://x"]

\* server 1 has a footer, a button and a gap of its own, the others the
\* default configuration
InitialConfig ==
    [s \in Servers |-> IF s = 1 THEN DecoratedConfig ELSE DefaultConfig]

\* context.user_data of an operator; checked_for is a history field: the
\* destination for which the staged time passed the conflict check, None when
\* no time is staged or the staged time was exempt from the check
EmptyUserData ==
    [waiting_post_time |-> FALSE, waiting_post_content |-> FALSE,
     waiting_post_confirmation |-> FALSE, post_server_id |-> None,
     scheduled_post_time |-> None, scheduled_post_time_str |-> None,
     post_photo_id |-> None, post_caption |-> "", post_text_content |-> "",
     checked_for |-> None]

NoRender == [full_content |-> "", reply_markup |-> None]
NoReply == [text |-> "", next_available |-> None]
NoLog == <<>>
Reply(u, text) == [text |-> text, next_available |-> None]

Init ==
    /\ now = 0
    /\ CHANNEL_IDS \in {NumServers - 1, NumServers}
    /\ server_config = InitialConfig
    /\ pending_posts = {}
    /\ nextId = 1
    /\ posts = <<>>
    /\ channel = <<>>
    /\ user_data = [u \in Users |-> EmptyUserData]
    /\ confirmButtons = [u \in Users |-> {}]
    /\ reply = NoReply
    /\ pc = "idle"
    /\ tickList = <<>>
    /\ rendered = NoRender
    /\ stage = <<0, 0>>
    /\ channel_message_id = None
    /\ ncalls = 0
    /\ logged = NoLog
    /\ headWithdrawn = FALSE
    /\ withdrawnAck = {}
    /\ sentEver = {}

\* ------------------------------------------------------------ the clock
AdvanceTime ==
    /\ now < MaxTime
    /\ now' = now + 1
    /\ reply' = NoReply
    /\ logged' = NoLog
    /\ UNCHANGED <<CHANNEL_IDS, dbVars, channel, sessionVars, tickVars,
                   histVars>>

\* ------------------------------------------------ pending_post_processor.py
\* the dispatcher is back at the scheduler
TickDone ==
    /\ pc' = "idle"
    /\ tickList' = <<>>
    /\ rendered' = NoRender
    /\ stage' = <<0, 0>>
    /\ channel_message_id' = None
    /\ ncalls' = 0
    /\ headWithdrawn' = FALSE

\* send_pending_post on the first item of l runs up to its first await (the
\* first delivery call, or the author notification when no channel is
\* configured); with no item left the tick is over
StartItem(l) ==
    IF l = <<>> THEN TickDone
    ELSE LET post == Head(l)
             config_data == get_server_config(post.server_id)
         IN  /\ tickList' = l
             /\ rendered' =
                  [full_content |-> RenderContent(post.message_text,
                                                  config_data.footer_text),
                   reply_markup |-> BuildMarkup(config_data)]
             /\ channel_message_id' = None
             /\ headWithdrawn' = (post._id \in withdrawnAck)
             /\ IF get_channel_id(post.server_id) = None
                THEN pc' = "notify" /\ stage' = <<0, 0>> /\ ncalls' = 0
                ELSE pc' = "send" /\ stage' = <<1, 1>> /\ ncalls' = 1

\* the line process_pending_posts logs when send_pending_post raised e for an
\* item, after calls delivery calls (a history field)
ErrorSending(post, e, calls) ==
    [error |-> "Error sending pending post", _id |-> post._id, e |-> e,
     calls |-> calls]

\* mutant: the exception leaves the loop and ends the tick
CaughtForItem_abort(l) == TickDone

\* what process_pending_posts does when send_pending_post raised for an item
\* and the items l are left: the exception is caught and the loop goes on
CaughtForItem(l) == StartItem(l)

\* the loop of process_pending_posts goes on with the items l, after the lines
\* were logged in this step: send_pending_post raises for the first k of them
\* before its first await (db.get_server_config fails)
Loop(l, lines) ==
    \E k \in 0..Len(l) :
       /\ IF lines = NoLog /\ k = 0
          THEN StartItem(l)
          ELSE CaughtForItem(SubSeq(l, k + 1, Len(l)))
       /\ logged' = lines \o [i \in 1..k |-> ErrorSending(l[i], "storage", 0)]

\* instances of the job process_pending_posts that are running
Instances == IF pc = "idle" THEN 0 ELSE 1

\* add_job is called without max_instances: the scheduler's default
max_instances == 1

\* mutant: the scheduler submits a run whatever is running
MayStart_always == TRUE

\* the scheduler submits a run of the job at a wake only below max_instances
MayStart == Instances < max_instances

\* the warning of the scheduler when a wake finds the job still running
Skipped ==
    [error |-> "maximum number of running instances reached", _id |-> 0,
     e |-> "other", calls |-> 0]

\* the interval trigger fires while a run of the job is in progress: the
\* scheduler does not submit a second run
WakeSkipped ==
    /\ ~MayStart
    /\ logged' = <<Skipped>>
    /\ reply' = NoReply
    /\ UNCHANGED <<now, CHANNEL_IDS, dbVars, channel, sessionVars, tickVars,
                   histVars>>

\* process_pending_posts up to the first await
StartTick ==
    /\ MayStart
    /\ get_pending_posts_ready # <<>>
    /\ Loop(get_pending_posts_ready, NoLog)
    /\ reply' = NoReply
    /\ UNCHANGED <<now, CHANNEL_IDS, dbVars, channel, sessionVars, histVars>>

\* process_pending_posts when db.get_pending_posts_ready raises: the outer
\* handler logs it and the tick is over
FetchRaises ==
    /\ MayStart
    /\ logged' = <<[error |-> "Error processing pending posts", _id |-> 0,
                    e |-> "storage", calls |-> 0]>>
    /\ reply' = NoReply
    /\ UNCHANGED <<now, CHANNEL_IDS, dbVars, channel, sessionVars, tickVars,
                   histVars>>

\* mutant: every delivery call carries the markup
AttemptMarkup_same == rendered.reply_markup

\* the markup the pending delivery call carries: the third call of
\* send_pending_post passes None, the third attempt of send_to_channel omits it
AttemptMarkup ==
    IF stage[1] = 3 \/ stage[2] = 3 THEN None ELSE rendered.reply_markup

\* what send_pending_post does with an exception of send_to_channel
LadderAfterRaise(kind) ==
    IF stage[1] = 1 /\ kind = "invalid_url" THEN <<2, 1>>
    ELSE IF stage[1] = 2 THEN <<3, 1>>
    ELSE <<0, 0>>

\* mutant: send_to_channel retries after a failure of any kind
LadderNext_any_kind(o) ==
    IF stage[2] < 3 THEN <<stage[1], stage[2] + 1>> ELSE LadderAfterRaise(o)

\* the next delivery call after the pending one failed with o, <<0, 0>> when
\* the exception leaves send_pending_post
LadderNext(o) ==
    IF stage[2] = 1
    THEN IF o = "invalid_url" THEN <<stage[1], 2>> ELSE LadderAfterRaise(o)
    ELSE IF stage[2] = 2 THEN <<stage[1], 3>>
    ELSE LadderAfterRaise(o)

\* the awaited delivery call returns or raises
DeliveryResult(o) ==
    /\ pc = "send"
    /\ IF o = "ok"
       THEN /\ Len(channel) < MaxMsgs
            /\ channel' = Append(channel,
                 Message(Head(tickList).server_id, Head(tickList)._id,
                         rendered.full_content, AttemptMarkup))
            /\ channel_message_id' = Some(Len(channel) + 1)
            /\ pc' = "notify"
            /\ stage' = <<0, 0>>
            /\ logged' = NoLog
            /\ UNCHANGED <<tickList, rendered, ncalls, headWithdrawn>>
       ELSE /\ channel' = channel
            /\ IF LadderNext(o) # <<0, 0>>
               THEN /\ stage' = LadderNext(o)
                    /\ ncalls' = ncalls + 1
                    /\ logged' = NoLog
                    /\ UNCHANGED <<pc, tickList, rendered, channel_message_id,
                                   headWithdrawn>>
               ELSE Loop(Tail(tickList),
                         <<ErrorSending(Head(tickList), o, ncalls)>>)
    /\ reply' = NoReply
    /\ UNCHANGED <<now, CHANNEL_IDS, dbVars, sessionVars, histVars>>

\* the line send_pending_post logs when the author notification raised
CouldNotNotify ==
    [error |-> "Could not notify user", _id |-> 0, e |-> "other", calls |-> 0]

\* mutant: an exception of the author notification leaves send_pending_post
NotifyCaught_raises(notified) == notified

\* send_pending_post goes on to the commit after the author notification,
\* whether it returned or raised (notified = FALSE): the exception is caught
NotifyCaught(notified) == TRUE

\* the awaited author notification returns or raises; then save_post and
\* mark_pending_post_sent run, each of which the storage may fail (saved,
\* marked = FALSE), and the loop goes on
NotifyResult(saved, marked) ==
    /\ pc = "notify"
    /\ saved => Len(posts) < MaxMsgs
    /\ \E notified \in BOOLEAN :
         LET post == Head(tickList)
             commits == NotifyCaught(notified) /\ saved
         IN  /\ IF commits
                THEN /\ posts' = save_post(post.server_id, post.user_id,
                                           channel_message_id)
                     /\ IF marked
                        THEN /\ pending_posts' =
                                  mark_pending_post_sent(post._id)
                             /\ sentEver' = IF find_one(post._id) # None
                                            THEN sentEver \cup {post._id}
                                            ELSE sentEver
                        ELSE UNCHANGED <<pending_posts, sentEver>>
                ELSE UNCHANGED <<posts, pending_posts, sentEver>>
             /\ Loop(Tail(tickList),
                     (IF notified THEN NoLog ELSE <<CouldNotNotify>>)
                       \o (IF commits /\ marked THEN NoLog
                           ELSE <<ErrorSending(post,
                                   IF NotifyCaught(notified) THEN "storage"
                                   ELSE "other", ncalls)>>))
    /\ reply' = NoReply
    /\ UNCHANGED <<now, CHANNEL_IDS, server_config, nextId, channel,
                   sessionVars, withdrawnAck>>

\* ------------------------------------------------------------------ bot.py
\* what the operator typed as posting time, after parsing: the literal now,
\* a future instant t, a date in the past, or no recognised form
TimeInputs ==
    {[kind |-> "now", t |-> now]}
      \cup {[kind |-> "at", t |-> t] : t \in now..MaxTime}
      \cup {[kind |-> "past", t |-> now], [kind |-> "format", t |-> now]}

\* callback post_server_<s>
SelectServer(u, s) ==
    /\ IF ~is_server_posting_enabled(s)
       THEN /\ reply' = Reply(u, "Posting Disabled")
            /\ UNCHANGED user_data
       ELSE /\ user_data' = [user_data EXCEPT ![u].post_server_id = Some(s),
                                              ![u].waiting_post_time = TRUE]
            /\ reply' = Reply(u, "Enter posting time")
    /\ logged' = NoLog
    /\ UNCHANGED <<now, CHANNEL_IDS, dbVars, channel, confirmButtons, tickVars,
                   histVars>>

\* mutant: the literal now goes through the time-slot check like any time
ExemptFromCheck_never(time_input) == FALSE

\* the guard time_input != "now" of both time-slot checks
ExemptFromCheck(time_input) == time_input = "now"

\* handle_text_input while waiting_post_time
TimeInput(u, inp) ==
    /\ user_data[u].waiting_post_time
    /\ LET server_id == Val(user_data[u].post_server_id)
           check == TimeSlotCheck(server_id, inp.t)
       IN  IF inp.kind = "past"
           THEN reply' = Reply(u, "Date/Time in the Past") /\ UNCHANGED user_data
           ELSE IF inp.kind = "format"
           THEN reply' = Reply(u, "Invalid format") /\ UNCHANGED user_data
           ELSE IF inp.kind = "invalid_date"
           THEN reply' = Reply(u, "Invalid Date") /\ UNCHANGED user_data
           ELSE IF ~ExemptFromCheck(inp.kind) /\ check.busy
           THEN /\ reply' = [text |-> "Time Slot Busy",
                             next_available |-> check.next_available]
                /\ UNCHANGED user_data
           ELSE /\ user_data' =
                     [user_data EXCEPT
                        ![u].scheduled_post_time = Some(inp.t),
                        ![u].scheduled_post_time_str =
                            Some(IF inp.kind = "now" THEN "now" ELSE "at"),
                        ![u].waiting_post_time = FALSE,
                        ![u].waiting_post_content = TRUE,
                        ![u].checked_for =
                            IF ExemptFromCheck(inp.kind) THEN None
                            ELSE Some(server_id)]
                /\ reply' = Reply(u, "Time Confirmed")
    /\ logged' = NoLog
    /\ UNCHANGED <<now, CHANNEL_IDS, dbVars, channel, confirmButtons, tickVars,
                   histVars>>

\* ---- the clock: under SpecResolve an instant is one second of a calendar
\* of MonthsPerYear months of DaysPerMonth days, counted from 00:00:00 UTC of
\* day 1 of month 1 of year 1
SecPerHour == SecPerMin * MinPerHour
SecPerDay == SecPerHour * HoursPerDay
SecPerMonth == SecPerDay * DaysPerMonth
SecPerYear == SecPerMonth * MonthsPerYear

\* an aware datetime in the display timezone is its wall clock, in seconds
\* from the epoch; astimezone between UTC and the display timezone
astimezone_ist(t) == t + IstOffset * SecPerMin
astimezone_utc(w) == w - IstOffset * SecPerMin

\* the fields of a datetime with wall clock w
Fields(w) ==
    [year |-> (w \div SecPerYear) + 1,
     month |-> ((w % SecPerYear) \div SecPerMonth) + 1,
     day |-> ((w % SecPerMonth) \div SecPerDay) + 1,
     hour |-> (w % SecPerDay) \div SecPerHour,
     minute |-> (w % SecPerHour) \div SecPerMin,
     second |-> w % SecPerMin]

\* datetime(year, month, day, hour, minute, 0, 0): None for the ValueError
\* of a month or a day the calendar does not have
datetime(year, month, day, hour, minute) ==
    IF month \in 1..MonthsPerYear /\ day \in 1..DaysPerMonth
    THEN Some((year - 1) * SecPerYear + (month - 1) * SecPerMonth
              + (day - 1) * SecPerDay + hour * SecPerHour + minute * SecPerMin)
    ELSE None

\* current.replace(hour=hour, minute=minute, second=0, microsecond=0)
replace(current, hour, minute) ==
    current - (current % SecPerDay) + hour * SecPerHour + minute * SecPerMin

\* what the operator typed as posting time: the literal now, HH:MM,
\* DD/MM HH:MM (year = None), DD/MM/YYYY HH:MM, or anything else; the numbers
\* are the digits typed, one past what the clock or the calendar has included
TimeText(form, day, month, year, hour, minute) ==
    [form |-> form, day |-> day, month |-> month, year |-> year,
     hour |-> hour, minute |-> minute]

TimeTexts ==
    {TimeText(f, 0, 0, None, 0, 0) : f \in {"now", "other"}}
      \cup {TimeText("time", 0, 0, None, h, m) :
              h \in 0..HoursPerDay, m \in 0..MinPerHour}
      \cup {TimeText("date", d, mo, y, h, m) :
              d \in 1..(DaysPerMonth + 1), mo \in 1..(MonthsPerYear + 1),
              y \in {None} \cup {Some(yy) : yy \in 1..2},
              h \in 0..HoursPerDay, m \in 0..(MinPerHour - 1)}

\* the group ([0-1]?[0-9]|2[0-3]):([0-5][0-9]) of both patterns
MatchesTime(text) ==
    text.hour \in 0..(HoursPerDay - 1) /\ text.minute \in 0..(MinPerHour - 1)

\* mutant: a date that is exactly the current instant counts as past
IsPast_or_now(proposed_time_ist, current_time_ist) ==
    proposed_time_ist <= current_time_ist

\* the check "date is in the past" of the date + time form
IsPast(proposed_time_ist, current_time_ist) ==
    proposed_time_ist < current_time_ist

\* mutant: today's time rolls to tomorrow only when it is strictly past
RollsOver_strict(proposed_time_ist, current_time_ist) ==
    proposed_time_ist < current_time_ist

\* the check "time is in the past today" of the time-only form
RollsOver(proposed_time_ist, current_time_ist) ==
    proposed_time_ist <= current_time_ist

\* the parsing of handle_text_input while waiting_post_time: the kind of the
\* input and the proposed_time (UTC) it resolves to
ParseTimeInput(text) ==
    LET current_time_ist == astimezone_ist(now)
    IN  IF text.form = "now" THEN [kind |-> "now", t |-> now]
        ELSE IF text.form = "date" /\ MatchesTime(text)
        THEN LET year == IF text.year # None THEN Val(text.year)
                         ELSE Fields(current_time_ist).year
                 proposed_time_ist ==
                     datetime(year, text.month, text.day, text.hour, text.minute)
             IN  IF proposed_time_ist = None
                 THEN [kind |-> "invalid_date", t |-> now]
                 ELSE IF IsPast(Val(proposed_time_ist), current_time_ist)
                 THEN [kind |-> "past", t |-> now]
                 ELSE [kind |-> "at",
                       t |-> astimezone_utc(Val(proposed_time_ist))]
        ELSE IF text.form = "time" /\ MatchesTime(text)
        THEN LET today == replace(current_time_ist, text.hour, text.minute)
                 proposed_time_ist ==
                     IF RollsOver(today, current_time_ist)
                     THEN today + SecPerDay ELSE today
             IN  [kind |-> "at", t |-> astimezone_utc(proposed_time_ist)]
        ELSE [kind |-> "format", t |-> now]

\* handle_text_input while waiting_post_time, for the text typed
TimeTyped(u, text) == TimeInput(u, ParseTimeInput(text))

\* the preview and the confirm keyboard are shown to the operator
PreviewShown(u, staged) ==
    /\ user_data' = staged
    /\ reply' = Reply(u, "Preview Above")
    /\ confirmButtons' =
         [confirmButtons EXCEPT ![u] = @ \cup {Val(user_data[u].post_server_id)}]

\* handle_text_input while waiting_post_content
ContentText(u, text) ==
    /\ ~user_data[u].waiting_post_time
    /\ user_data[u].waiting_post_content
    /\ PreviewShown(u, [user_data EXCEPT ![u].post_text_content = text,
                                         ![u].waiting_post_content = FALSE,
                                         ![u].waiting_post_confirmation = TRUE])
    /\ logged' = NoLog
    /\ UNCHANGED <<now, CHANNEL_IDS, dbVars, channel, tickVars, histVars>>

\* handle_photo
ContentPhoto(u, caption) ==
    /\ user_data[u].waiting_post_content
    /\ PreviewShown(u, [user_data EXCEPT ![u].post_photo_id = Some("photo"),
                                         ![u].post_caption = caption,
                                         ![u].waiting_post_content = FALSE,
                                         ![u].waiting_post_confirmation = TRUE])
    /\ logged' = NoLog
    /\ UNCHANGED <<now, CHANNEL_IDS, dbVars, channel, tickVars, histVars>>

\* the delivery ladder of _send_post_to_channel on a configured channel, for
\* the outcomes o[1..3] Telegram gives to its calls: whether the content was
\* delivered, with which markup, and the calls made
_send_post_to_channel(o, reply_markup) ==
    IF o[1] = "ok"
    THEN [delivered |-> TRUE, markup |-> reply_markup, calls |-> <<reply_markup>>]
    ELSE IF o[1] # "invalid_url"
    THEN [delivered |-> FALSE, markup |-> None, calls |-> <<reply_markup>>]
    ELSE IF o[2] = "ok"
    THEN [delivered |-> TRUE, markup |-> reply_markup,
          calls |-> <<reply_markup, reply_markup>>]
    ELSE [delivered |-> o[3] = "ok", markup |-> None,
          calls |-> <<reply_markup, reply_markup, None>>]

ImmediateItem == 0 - (Cardinality({i \in 1..Len(channel) : channel[i].item < 0}) + 1)

ClearedAfterConfirm(ud) ==
    [ud EXCEPT !.waiting_post_confirmation = FALSE,
               !.scheduled_post_time = None,
               !.scheduled_post_time_str = None,
               !.post_photo_id = None,
               !.post_caption = "",
               !.post_text_content = "",
               !.checked_for = None]

\* the outcomes of the three calls of a ladder; a call that is not made has
\* the outcome "ok"
OutcomeSeqs ==
    {o \in [1..3 -> Outcomes] :
       /\ o[1] # "invalid_url" => o[2] = "ok"
       /\ o[2] = "ok" => o[3] = "ok"}

\* mutant: a failed immediate post clears the staged request as a successful
\* one does
PostImmediately_forgets(u, recovered, server_id, content, o, dbok) ==
    LET config_data == get_server_config(server_id)
        full_content == RenderContent(content, config_data.footer_text)
        r == _send_post_to_channel(o, BuildMarkup(config_data))
        channel_id == get_channel_id(server_id)
        sent == channel_id # None /\ r.delivered
        failed == channel_id # None /\ ~r.delivered
    IN  /\ sent => Len(channel) < MaxImmediate
        /\ ~failed /\ dbok => Len(posts) < MaxImmediate
        /\ channel' =
             IF sent
             THEN Append(channel, Message(server_id, ImmediateItem,
                                          full_content, r.markup))
             ELSE channel
        /\ IF failed \/ ~dbok
           THEN /\ reply' = Reply(u, "Error Posting to Channel")
                /\ user_data' = [user_data EXCEPT
                                   ![u] = ClearedAfterConfirm(recovered)]
                /\ posts' = posts
           ELSE /\ posts' = save_post(server_id, u,
                                      IF sent THEN Some(Len(channel) + 1)
                                      ELSE None)
                /\ reply' = Reply(u, "Posted Successfully")
                /\ user_data' = [user_data EXCEPT
                                   ![u] = ClearedAfterConfirm(recovered)]
        /\ UNCHANGED <<pending_posts, nextId>>

\* confirm_post, the branch that posts immediately; o[1..3] are the outcomes
\* Telegram gives to the delivery calls and dbok is whether the storage
\* accepts the PostRecord
PostImmediately(u, recovered, server_id, content, o, dbok) ==
    LET config_data == get_server_config(server_id)
        full_content == RenderContent(content, config_data.footer_text)
        r == _send_post_to_channel(o, BuildMarkup(config_data))
        channel_id == get_channel_id(server_id)
        sent == channel_id # None /\ r.delivered
        failed == channel_id # None /\ ~r.delivered
    IN  /\ sent => Len(channel) < MaxImmediate
        /\ ~failed /\ dbok => Len(posts) < MaxImmediate
        /\ channel' =
             IF sent
             THEN Append(channel, Message(server_id, ImmediateItem,
                                          full_content, r.markup))
             ELSE channel
        /\ IF failed \/ ~dbok
           THEN /\ reply' = Reply(u, "Error Posting to Channel")
                /\ user_data' = [user_data EXCEPT ![u] = recovered]
                /\ posts' = posts
           ELSE /\ posts' = save_post(server_id, u,
                                      IF sent THEN Some(Len(channel) + 1)
                                      ELSE None)
                /\ reply' = Reply(u, "Posted Successfully")
                /\ user_data' = [user_data EXCEPT
                                   ![u] = ClearedAfterConfirm(recovered)]
        /\ UNCHANGED <<pending_posts, nextId>>

\* confirm_post, the branch that schedules for later
SchedulePost(u, recovered, server_id, content, scheduled_time, photo_id, dbok) ==
    /\ nextId <= MaxPosts
    /\ IF dbok
       THEN /\ pending_posts' = save_pending_post(server_id, u, content,
                                                   scheduled_time, photo_id)
            /\ nextId' = nextId + 1
            /\ reply' = Reply(u, "Post Scheduled")
            /\ user_data' = [user_data EXCEPT
                               ![u] = ClearedAfterConfirm(recovered)]
       ELSE /\ reply' = Reply(u, "Error")
            /\ user_data' = [user_data EXCEPT ![u] = recovered]
            /\ UNCHANGED <<pending_posts, nextId>>
    /\ UNCHANGED <<posts, channel>>

\* mutant: only the request "now" is posted immediately; a staged time that
\* has elapsed is still enqueued
SendsNow_only_literal(scheduled_time_str, scheduled_time) ==
    scheduled_time_str = "now"

\* confirm_post's test for posting immediately rather than enqueuing
SendsNow(scheduled_time_str, scheduled_time) ==
    scheduled_time_str = "now" \/ Val(scheduled_time) <= now

\* callback confirm_post_<b>
ConfirmPost(u, b) ==
    /\ b \in confirmButtons[u]
    /\ LET ud == user_data[u]
           server_id == IF ud.post_server_id # None
                        THEN Val(ud.post_server_id) ELSE b
           recovered == [ud EXCEPT !.post_server_id = Some(server_id)]
           scheduled_time == ud.scheduled_post_time
           scheduled_time_str == IF ud.scheduled_post_time_str = None
                                 THEN "now" ELSE Val(ud.scheduled_post_time_str)
           photo_id == ud.post_photo_id
           content == IF photo_id # None THEN ud.post_caption
                      ELSE ud.post_text_content
       IN  IF ~is_server_posting_enabled(server_id)
           THEN /\ reply' = Reply(u, "Posting Disabled")
                /\ user_data' = [user_data EXCEPT ![u] = recovered]
                /\ UNCHANGED <<pending_posts, nextId, posts, channel>>
           ELSE IF scheduled_time_str # "now" /\ scheduled_time = None
           THEN /\ reply' = Reply(u, "Error")
                /\ user_data' = [user_data EXCEPT ![u] = recovered]
                /\ UNCHANGED <<pending_posts, nextId, posts, channel>>
           ELSE IF SendsNow(scheduled_time_str, scheduled_time)
           THEN \E o \in OutcomeSeqs, dbok \in BOOLEAN :
                   PostImmediately(u, recovered, server_id, content, o, dbok)
           ELSE \E dbok \in BOOLEAN :
                   SchedulePost(u, recovered, server_id, content,
                                Val(scheduled_time), photo_id, dbok)
    /\ logged' = NoLog
    /\ UNCHANGED <<now, CHANNEL_IDS, server_config, confirmButtons, tickVars,
                   histVars>>

\* callback cancel_post_confirm, a button of the confirm keyboard
CancelPost(u) ==
    /\ confirmButtons[u] # {}
    /\ user_data' = [user_data EXCEPT ![u] = ClearedAfterConfirm(@)]
    /\ reply' = Reply(u, "Post Cancelled")
    /\ logged' = NoLog
    /\ UNCHANGED <<now, CHANNEL_IDS, dbVars, channel, confirmButtons, tickVars,
                   histVars>>

\* mutant: every user passes the ownership check
OwnsOrAdmin_anyone(pending_post, user_id) == TRUE

\* the ownership check of delete_pending_: the author of the post, or the admin
OwnsOrAdmin(pending_post, user_id) ==
    pending_post.user_id = user_id \/ user_id = ADMIN_ID

\* callback delete_pending_<id>
DeletePending(u, id) ==
    /\ LET pending_post == find_one(id)
       IN  IF pending_post = None
           THEN /\ reply' = Reply(u, "Post not found or already deleted")
                /\ UNCHANGED <<pending_posts, withdrawnAck>>
           ELSE IF ~OwnsOrAdmin(Val(pending_post), u)
           THEN /\ reply' = Reply(u, "You can only delete your own posts")
                /\ UNCHANGED <<pending_posts, withdrawnAck>>
           ELSE /\ pending_posts' = delete_pending_post(id)
                /\ withdrawnAck' = withdrawnAck \cup {id}
                /\ reply' = Reply(u, "Post deleted successfully")
    /\ logged' = NoLog
    /\ UNCHANGED <<now, CHANNEL_IDS, server_config, nextId, posts, channel,
                   sessionVars, tickVars, sentEver>>

\* callback withdraw_post_<id>
WithdrawPost(u, id) ==
    /\ IF u # ADMIN_ID
       THEN /\ reply' = Reply(u, "Only admin can withdraw posts")
            /\ UNCHANGED <<pending_posts, withdrawnAck>>
       ELSE IF find_one(id) = None
       THEN /\ reply' = Reply(u, "Post not found or already deleted")
            /\ UNCHANGED <<pending_posts, withdrawnAck>>
       ELSE /\ pending_posts' = delete_pending_post(id)
            /\ withdrawnAck' = withdrawnAck \cup {id}
            /\ reply' = Reply(u, "Post withdrawn successfully")
    /\ logged' = NoLog
    /\ UNCHANGED <<now, CHANNEL_IDS, server_config, nextId, posts, channel,
                   sessionVars, tickVars, sentEver>>

\* callback toggle_posting_<s>
TogglePosting(u, s) ==
    /\ IF u # ADMIN_ID
       THEN /\ reply' = Reply(u, "Only admin can toggle posting permission")
            /\ UNCHANGED server_config
       ELSE /\ server_config' =
                 [server_config EXCEPT
                    ![s].posting_enabled = ~is_server_posting_enabled(s)]
            /\ reply' = Reply(u, IF is_server_posting_enabled(s)
                                 THEN "Posting disabled for this server"
                                 ELSE "Posting enabled for this server")
    /\ logged' = NoLog
    /\ UNCHANGED <<now, CHANNEL_IDS, pending_posts, nextId, posts, channel,
                   sessionVars, tickVars, histVars>>

\* handle_text_input while waiting_timegap, for the server of edit_timegap_<s>
\* mutant: the new gap is written to every destination's configuration
UpdateTimeGap_all(u, s, minutes) ==
    /\ server_config' = [d \in Servers |->
                           [server_config[d] EXCEPT !.min_time_gap = minutes]]
    /\ reply' = Reply(u, "Time Gap Updated")
    /\ logged' = NoLog
    /\ UNCHANGED <<now, CHANNEL_IDS, pending_posts, nextId, posts, channel,
                   sessionVars, tickVars, histVars>>

UpdateTimeGap(u, s, minutes) ==
    /\ server_config' = [server_config EXCEPT ![s].min_time_gap = minutes]
    /\ reply' = Reply(u, "Time Gap Updated")
    /\ logged' = NoLog
    /\ UNCHANGED <<now, CHANNEL_IDS, pending_posts, nextId, posts, channel,
                   sessionVars, tickVars, histVars>>

\* ---------------------------------------------------------- specification
\* The handlers of the bot together with the dispatcher, as they run once
\* PostScheduler.start has been called.
Next ==
    \/ AdvanceTime
    \/ StartTick
    \/ FetchRaises
    \/ \E o \in Outcomes : DeliveryResult(o)
    \/ \E saved, marked \in BOOLEAN : NotifyResult(saved, marked)
    \/ \E u \in Users, s \in Servers : SelectServer(u, s)
    \/ \E u \in Users : \E inp \in TimeInputs : TimeInput(u, inp)
    \/ \E u \in Users : ContentText(u, "Hello")
    \/ \E u \in Users, c \in Texts : ContentPhoto(u, c)
    \/ \E u \in Users, b \in Servers : ConfirmPost(u, b)
    \/ \E u \in Users : CancelPost(u)
    \/ \E u \in Users, id \in 1..(nextId - 1) : DeletePending(u, id)
    \/ \E u \in Users, id \in 1..(nextId - 1) : WithdrawPost(u, id)
    \/ \E u \in Users, s \in Servers : TogglePosting(u, s)
    \/ \E u \in Users, s \in Servers, m \in Gaps : UpdateTimeGap(u, s, m)

Spec == Init /\ [][Next]_vars

\* no request of operator u is in progress
Idle(u) ==
    /\ ~user_data[u].waiting_post_time
    /\ ~user_data[u].waiting_post_content
    /\ ~user_data[u].waiting_post_confirmation

\* The request path of one operator, the admin, who starts a request only
\* when none is in progress, and switches destinations on and off meanwhile;
\* the dispatcher is not running
NextRequest ==
    \/ AdvanceTime
    \/ \E s \in Servers : Idle(ADMIN_ID) /\ SelectServer(ADMIN_ID, s)
    \/ \E inp \in TimeInputs : TimeInput(ADMIN_ID, inp)
    \/ ContentText(ADMIN_ID, "Hello")
    \/ \E b \in Servers : ConfirmPost(ADMIN_ID, b)
    \/ \E s \in Servers : TogglePosting(ADMIN_ID, s)

SpecRequest == Init /\ [][NextRequest]_vars

\* Two operators, the admin and a manager, each starting a request for
\* destination 1 only when they have none in progress; their handlers
\* interleave and the dispatcher is not running
NextRace ==
    \/ AdvanceTime
    \/ \E u \in Users : Idle(u) /\ SelectServer(u, 1)
    \/ \E u \in Users : \E inp \in TimeInputs : TimeInput(u, inp)
    \/ \E u \in Users : ContentText(u, "Hello")
    \/ \E u \in Users, b \in Servers : ConfirmPost(u, b)

InitRace == Init /\ CHANNEL_IDS = NumServers

SpecRace == InitRace /\ [][NextRace]_vars

\* The time step of the admin's request at every instant of the last day of
\* year 1 and the first day of year 2 in the display timezone, for every text
\* typed; nothing is pending and nothing was posted
ClockTimes ==
    astimezone_utc(SecPerYear - SecPerDay)..astimezone_utc(SecPerYear + SecPerDay)

InitResolve ==
    /\ now \in ClockTimes
    /\ CHANNEL_IDS = NumServers
    /\ server_config = InitialConfig
    /\ pending_posts = {}
    /\ nextId = 1
    /\ posts = <<>>
    /\ channel = <<>>
    /\ user_data = [u \in Users |-> EmptyUserData]
    /\ confirmButtons = [u \in Users |-> {}]
    /\ reply = NoReply
    /\ pc = "idle"
    /\ tickList = <<>>
    /\ rendered = NoRender
    /\ stage = <<0, 0>>
    /\ channel_message_id = None
    /\ ncalls = 0
    /\ logged = NoLog
    /\ headWithdrawn = FALSE
    /\ withdrawnAck = {}
    /\ sentEver = {}

NextResolve ==
    \/ \E s \in Servers : Idle(ADMIN_ID) /\ SelectServer(ADMIN_ID, s)
    \/ \E text \in TimeTexts : TimeTyped(ADMIN_ID, text)

SpecResolve == InitResolve /\ [][NextResolve]_vars

\* document id of a queue that earlier schedule requests left behind, by the
\* admin (odd ids) or by the manager
PendingDoc(id, server_id, scheduled_time) ==
    [_id |-> id, server_id |-> server_id,
     user_id |-> IF id % 2 = 1 THEN ADMIN_ID ELSE ADMIN_ID + 1,
     message_text |-> "Hello", photo_id |-> None,
     scheduled_time |-> scheduled_time, status |-> "pending"]

\* the queues of at most MaxPosts documents, ids in the order of their times
Queues ==
    UNION {{{PendingDoc(i, sv[i], tm[i]) : i \in 1..n} :
              sv \in [1..n -> Servers],
              tm \in {t \in [1..n -> Times] :
                        \A i, j \in 1..n : i <= j => t[i] <= t[j]}} :
           n \in 0..MaxPosts}

InitQueue ==
    /\ now = 0
    /\ CHANNEL_IDS \in {NumServers - 1, NumServers}
    /\ server_config = InitialConfig
    /\ pending_posts \in Queues
    /\ nextId = Cardinality(pending_posts) + 1
    /\ channel = <<>>
    /\ user_data = [u \in Users |-> EmptyUserData]
    /\ confirmButtons = [u \in Users |-> {}]
    /\ reply = NoReply
    /\ pc = "idle"
    /\ tickList = <<>>
    /\ rendered = NoRender
    /\ stage = <<0, 0>>
    /\ channel_message_id = None
    /\ ncalls = 0
    /\ logged = NoLog
    /\ headWithdrawn = FALSE
    /\ withdrawnAck = {}
    /\ sentEver = {}

\* The time step of the admin's requests against a queue and a history that
\* earlier requests left behind, under every minimum gap of destination 1
InitCheck ==
    /\ InitQueue
    /\ posts \in {<<>>} \cup {<<PostRecord(s, ADMIN_ID, None)>> : s \in Servers}

NextCheck ==
    \/ AdvanceTime
    \/ \E s \in Servers : SelectServer(ADMIN_ID, s)
    \/ \E inp \in TimeInputs : TimeInput(ADMIN_ID, inp)
    \/ \E m \in Gaps : UpdateTimeGap(ADMIN_ID, 1, m)

SpecCheck == InitCheck /\ [][NextCheck]_vars

\* The dispatcher against a queue that earlier schedule requests left behind,
\* while the operators withdraw items
InitDispatch ==
    /\ InitQueue
    /\ CHANNEL_IDS = NumServers
    /\ posts = <<>>

NextDispatch ==
    \/ AdvanceTime
    \/ StartTick
    \/ FetchRaises
    \/ \E o \in Outcomes : DeliveryResult(o)
    \/ \E saved, marked \in BOOLEAN : NotifyResult(saved, marked)
    \/ \E u \in Users, id \in 1..(nextId - 1) : DeletePending(u, id)

SpecDispatch == InitDispatch /\ [][NextDispatch]_vars

\* The dispatcher against a queue that earlier schedule requests left behind,
\* while the admin switches destinations off and on between two ticks
NextDisable ==
    \/ AdvanceTime
    \/ StartTick
    \/ \E o \in Outcomes : DeliveryResult(o)
    \/ \E saved, marked \in BOOLEAN : NotifyResult(saved, marked)
    \/ \E s \in Servers : pc = "idle" /\ TogglePosting(ADMIN_ID, s)

SpecDisable == InitDispatch /\ [][NextDisable]_vars

\* The dispatcher alone against a queue that earlier schedule requests left
\* behind, under every outcome of its delivery calls and storage calls
NextLadder ==
    \/ AdvanceTime
    \/ StartTick
    \/ FetchRaises
    \/ \E o \in Outcomes : DeliveryResult(o)
    \/ \E saved, marked \in BOOLEAN : NotifyResult(saved, marked)

SpecLadder == InitDispatch /\ [][NextLadder]_vars

\* Rendering on both paths: a tick over at most one ready item with or
\* without text, and immediate posts of the admin with text or with a photo
\* with or without caption, for destinations with and without a footer; a
\* tick starts between two requests and a request between two ticks
InitRender ==
    /\ now = 0
    /\ CHANNEL_IDS = NumServers
    /\ server_config \in [Servers -> {DefaultConfig, DecoratedConfig}]
    /\ pending_posts \in
         {{}} \cup {{[PendingDoc(1, s, 0) EXCEPT !.message_text = t]} :
                      s \in Servers, t \in Texts}
    /\ nextId = Cardinality(pending_posts) + 1
    /\ posts = <<>>
    /\ channel = <<>>
    /\ user_data = [u \in Users |-> EmptyUserData]
    /\ confirmButtons = [u \in Users |-> {}]
    /\ reply = NoReply
    /\ pc = "idle"
    /\ tickList = <<>>
    /\ rendered = NoRender
    /\ stage = <<0, 0>>
    /\ channel_message_id = None
    /\ ncalls = 0
    /\ logged = NoLog
    /\ headWithdrawn = FALSE
    /\ withdrawnAck = {}
    /\ sentEver = {}

NextRender ==
    \/ Idle(ADMIN_ID) /\ StartTick
    \/ \E o \in Outcomes : DeliveryResult(o)
    \/ \E saved, marked \in BOOLEAN : NotifyResult(saved, marked)
    \/ \E s \in Servers :
          pc = "idle" /\ Idle(ADMIN_ID) /\ SelectServer(ADMIN_ID, s)
    \/ TimeInput(ADMIN_ID, [kind |-> "now", t |-> now])
    \/ ContentText(ADMIN_ID, "Hello")
    \/ \E c \in Texts : ContentPhoto(ADMIN_ID, c)
    \/ \E b \in Servers : ConfirmPost(ADMIN_ID, b)

SpecRender == InitRender /\ [][NextRender]_vars

\* The program as TelegramBot.run launches it: run registers the managers and
\* starts polling, so the handlers run as updates arrive; it creates no
\* PostScheduler and no module of the program calls PostScheduler.start, so
\* no step of the running program is a wake of the interval trigger.  One
\* operator, the admin, starts a request only when none is in progress, and
\* every update that arrives is eventually handled.
NextRun ==
    \/ AdvanceTime
    \/ \E s \in Servers : Idle(ADMIN_ID) /\ SelectServer(ADMIN_ID, s)
    \/ \E inp \in TimeInputs : TimeInput(ADMIN_ID, inp)
    \/ ContentText(ADMIN_ID, "Hello")
    \/ \E b \in Servers : ConfirmPost(ADMIN_ID, b)

SpecRun == Init /\ [][NextRun]_vars /\ WF_vars(NextRun)

\* The dispatcher under the interval trigger: a wake of the trigger either
\* submits a run of the job or is skipped.
NextWake ==
    \/ AdvanceTime
    \/ StartTick
    \/ FetchRaises
    \/ WakeSkipped
    \/ \E o \in Outcomes : DeliveryResult(o)
    \/ \E saved, marked \in BOOLEAN : NotifyResult(saved, marked)

SpecWake == InitDispatch /\ [][NextWake]_vars

\* Queues whose documents were inserted in any order of their target
\* instants: a later request may ask for an earlier instant.
QueuesAnyOrder ==
    UNION {{{PendingDoc(i, sv[i], tm[i]) : i \in 1..n} :
              sv \in [1..n -> Servers], tm \in [1..n -> Times]} :
           n \in 0..MaxPosts}

InitOrder ==
    /\ now = 0
    /\ CHANNEL_IDS = NumServers
    /\ server_config = InitialConfig
    /\ pending_posts \in QueuesAnyOrder
    /\ nextId = Cardinality(pending_posts) + 1
    /\ posts = <<>>
    /\ channel = <<>>
    /\ user_data = [u \in Users |-> EmptyUserData]
    /\ confirmButtons = [u \in Users |-> {}]
    /\ reply = NoReply
    /\ pc = "idle"
    /\ tickList = <<>>
    /\ rendered = NoRender
    /\ stage = <<0, 0>>
    /\ channel_message_id = None
    /\ ncalls = 0
    /\ logged = NoLog
    /\ headWithdrawn = FALSE
    /\ withdrawnAck = {}
    /\ sentEver = {}

\* The dispatcher alone over a queue inserted in any order.
SpecOrder == InitOrder /\ [][NextLadder]_vars

\* The two withdrawal callbacks, pressed by the admin and by a manager for
\* every item of a queue that holds items of both; the dispatcher is not
\* running.
NextWithdraw ==
    \/ AdvanceTime
    \/ \E u \in Users, id \in 1..(nextId - 1) : DeletePending(u, id)
    \/ \E u \in Users, id \in 1..(nextId - 1) : WithdrawPost(u, id)

SpecWithdraw == InitDispatch /\ [][NextWithdraw]_vars

\* The labels and URLs a button slot holds: unset, or what the configuration
\* handler stores, a stripped text and a stripped text that starts with
\* http:// (which the transport may still find invalid).
ButtonTexts == {"", "Go"}
ButtonUrls == {"", "http://x", "http://"}

ButtonConfigs ==
    {[DefaultConfig EXCEPT !.button1_text = t1, !.button1_url = u1,
                           !.button2_text = t2, !.button2_url = u2] :
       t1 \in ButtonTexts, u1 \in ButtonUrls,
       t2 \in ButtonTexts, u2 \in ButtonUrls}

InitMarkup ==
    /\ now = 0
    /\ CHANNEL_IDS = NumServers
    /\ server_config \in {[s \in Servers |-> IF s = 1 THEN c ELSE DefaultConfig] :
                            c \in ButtonConfigs}
    /\ pending_posts = {PendingDoc(1, 1, 0)}
    /\ nextId = 2
    /\ posts = <<>>
    /\ channel = <<>>
    /\ user_data = [u \in Users |-> EmptyUserData]
    /\ confirmButtons = [u \in Users |-> {}]
    /\ reply = NoReply
    /\ pc = "idle"
    /\ tickList = <<>>
    /\ rendered = NoRender
    /\ stage = <<0, 0>>
    /\ channel_message_id = None
    /\ ncalls = 0
    /\ logged = NoLog
    /\ headWithdrawn = FALSE
    /\ withdrawnAck = {}
    /\ sentEver = {}

\* One pending item and one immediate post of the admin for destination 1,
\* whose button slots hold every combination of label and URL; a tick and a
\* request do not overlap.
NextMarkup ==
    \/ Idle(ADMIN_ID) /\ StartTick
    \/ \E o \in Outcomes : DeliveryResult(o)
    \/ \E saved, marked \in BOOLEAN : NotifyResult(saved, marked)
    \/ pc = "idle" /\ Idle(ADMIN_ID) /\ SelectServer(ADMIN_ID, 1)
    \/ TimeInput(ADMIN_ID, [kind |-> "now", t |-> now])
    \/ ContentText(ADMIN_ID, "Hello")
    \/ ConfirmPost(ADMIN_ID, 1)

SpecMarkup == InitMarkup /\ [][NextMarkup]_vars

\* The session of one operator, the admin, who schedules photo posts and
\* presses the buttons in any order: a destination may be selected while a
\* request is in progress, and the confirm keyboard of an earlier preview may
\* be pressed again.  The dispatcher is not running and the session is short:
\* the clock does not move meanwhile.
NextSession ==
    \/ \E s \in Servers : SelectServer(ADMIN_ID, s)
    \/ \E t \in now..MaxTime : TimeInput(ADMIN_ID, [kind |-> "at", t |-> t])
    \/ ContentPhoto(ADMIN_ID, "Hello")
    \/ \E b \in Servers : ConfirmPost(ADMIN_ID, b)
    \/ CancelPost(ADMIN_ID)

SpecSession == InitRace /\ [][NextSession]_vars

\* The dispatcher and the admin's immediate posts where a destination may have
\* no channel configured; a tick and a request do not overlap.
InitUnconfigured ==
    /\ InitQueue
    /\ posts = <<>>
    /\ Cardinality(pending_posts) <= 1

NextUnconfigured ==
    \/ Idle(ADMIN_ID) /\ StartTick
    \/ \E o \in Outcomes : DeliveryResult(o)
    \/ \E saved, marked \in BOOLEAN : NotifyResult(saved, marked)
    \/ \E s \in Servers :
          pc = "idle" /\ Idle(ADMIN_ID) /\ SelectServer(ADMIN_ID, s)
    \/ TimeInput(ADMIN_ID, [kind |-> "now", t |-> now])
    \/ ContentText(ADMIN_ID, "Hello")
    \/ \E b \in Servers : ConfirmPost(ADMIN_ID, b)

SpecUnconfigured == InitUnconfigured /\ [][NextUnconfigured]_vars

\* no call of the storage raises in the step
StorageWorks == \A i \in 1..Len(logged') : logged'[i].e # "storage"

\* mutant: the delivery and notification calls block the event loop
Awaited_none == {}

\* the positions at which the dispatcher is suspended in an awaited call of
\* the transport
Awaited == {"send", "notify"}

\* the event loop can run a handler: no tick is running, or the tick is
\* suspended at an await
EventLoopFree == pc = "idle" \/ pc \in Awaited

\* the handlers of the request path as the event loop runs them
HandleDelete(u, id) == EventLoopFree /\ DeletePending(u, id)
HandleConfirm(u, b) == EventLoopFree /\ ConfirmPost(u, b)

InitBlock ==
    /\ InitDispatch
    /\ Cardinality(pending_posts) <= 1

\* the time the operator has staged is still ahead
StagedAhead(u) ==
    /\ user_data[u].scheduled_post_time # None
    /\ Val(user_data[u].scheduled_post_time) > now

\* The dispatcher with the trigger started and a storage that works, and the
\* admin's schedule requests and withdrawals for destination 1, handled
\* whenever the event loop is free; the admin confirms while the staged time
\* is ahead.
NextBlock ==
    \/ AdvanceTime
    \/ StartTick /\ StorageWorks
    \/ \E o \in Outcomes : DeliveryResult(o) /\ StorageWorks
    \/ NotifyResult(TRUE, TRUE) /\ StorageWorks
    \/ EventLoopFree /\ Idle(ADMIN_ID) /\ SelectServer(ADMIN_ID, 1)
    \/ \E t \in now..MaxTime :
          EventLoopFree /\ TimeInput(ADMIN_ID, [kind |-> "at", t |-> t])
    \/ EventLoopFree /\ ContentText(ADMIN_ID, "Hello")
    \/ StagedAhead(ADMIN_ID) /\ HandleConfirm(ADMIN_ID, 1)
    \/ \E id \in 1..(nextId - 1) : HandleDelete(ADMIN_ID, id)

SpecBlock == InitBlock /\ [][NextBlock]_vars

\* The dispatcher with the interval trigger started, a storage that works and
\* a transport that fails or succeeds: the trigger keeps waking the job
\* (weak fairness of the tick), every awaited call returns or raises (weak
\* fairness of the results), and a delivery that is attempted again and again
\* eventually succeeds (strong fairness of the successful delivery).
NextLive ==
    \/ AdvanceTime
    \/ StartTick /\ StorageWorks
    \/ \E o \in Outcomes : DeliveryResult(o) /\ StorageWorks
    \/ NotifyResult(TRUE, TRUE) /\ StorageWorks

FairLive ==
    /\ WF_vars(AdvanceTime)
    /\ WF_vars(StartTick /\ StorageWorks)
    /\ WF_vars(\E o \in Outcomes : DeliveryResult(o) /\ StorageWorks)
    /\ SF_vars(DeliveryResult("ok") /\ StorageWorks)
    /\ WF_vars(NotifyResult(TRUE, TRUE) /\ StorageWorks)

SpecLive == InitDispatch /\ [][NextLive]_vars /\ FairLive

\* ------------------------------------------------- the dispatcher's claims
\* the channel messages delivered for pending item x
DeliveriesOf(x) == {k \in 1..Len(channel) : channel[k].item = x}

\* the PostRecords that refer to a delivery of pending item x
RecordsOf(x) ==
    {i \in 1..Len(posts) :
       \E k \in DeliveriesOf(x) : posts[i].channel_message_id = Some(k)}

\* send_pending_post is between the delivery of x and its PostRecord
InFlight(x) == pc = "notify" /\ Head(tickList)._id = x

\* C1: across ticks, withdrawals, delivery failures and storage failures, a
\* scheduled item is delivered to its channel at most once
C1_DeliveredAtMostOnce ==
    \A x \in 1..(nextId - 1) : Cardinality(DeliveriesOf(x)) <= 1

\* C2: once the withdrawal of item X has been acknowledged, no delivery of X
\* follows, also when the withdrawal completed while the tick was awaiting an
\* earlier item of the ready list it had fetched: the dispatcher never holds
\* a delivered message for a head item whose withdrawal was acknowledged
\* before send_pending_post was called for it
C2_NoDeliveryAfterWithdrawal ==
    ~(pc = "notify" /\ headWithdrawn /\ channel_message_id # None)

\* C3: each delivered item has exactly one PostRecord, never zero and never
\* two (once send_pending_post is through with the item)
C3_ExactlyOneRecord ==
    \A x \in 1..(nextId - 1) :
       DeliveriesOf(x) # {} /\ ~InFlight(x) => Cardinality(RecordsOf(x)) = 1

\* C5 as stated: two deliveries of different scheduled items to one
\* destination, whose target instants respect the destination's min-gap,
\* happen at instants at least the min-gap apart
C5_ScheduledDeliveriesSpaced ==
    \A i, j \in 1..Len(channel) :
       LET a == find_one(channel[i].item)
           b == find_one(channel[j].item)
           min_gap == get_server_config(channel[i].chat).min_time_gap
       IN  /\ i < j /\ channel[i].chat = channel[j].chat
           /\ channel[i].item # channel[j].item
           /\ a # None /\ b # None
           /\ Abs(Val(a).scheduled_time - Val(b).scheduled_time) >= min_gap
           => Abs(channel[j].at - channel[i].at) >= min_gap

\* C5 amended: the dispatcher applies no spacing of its own; what holds of a
\* scheduled delivery is that send_pending_post never runs for an item before
\* the item's target instant
C5_NotBeforeTarget ==
    pc \in {"send", "notify"} => Head(tickList).scheduled_time <= now

\* two different items of one destination, scheduled a min-gap apart, were
\* delivered at the same instant, the later one just now
C5_Witness ==
    /\ pc = "notify" /\ channel_message_id # None
    /\ \E i \in 1..Len(channel) :
          LET j == Val(channel_message_id)
              a == find_one(channel[i].item)
              b == find_one(channel[j].item)
          IN  /\ i < j /\ channel[i].chat = channel[j].chat
              /\ channel[i].item # channel[j].item
              /\ channel[i].at = channel[j].at
              /\ a # None /\ b # None
              /\ Val(a).scheduled_time # Val(b).scheduled_time

\* C8: an item that was marked sent is never again in the ready list
C8_SentNeverReady ==
    \A i \in 1..Len(get_pending_posts_ready) :
       get_pending_posts_ready[i]._id \notin sentEver

\* a later tick is at work while an item marked sent, whose target instant
\* has elapsed, is in the collection
C8_Witness ==
    /\ pc = "send"
    /\ \E p \in pending_posts :
          /\ p._id \in sentEver /\ p.scheduled_time <= now
          /\ p._id # Head(tickList)._id

\* C9: an item whose withdrawal was acknowledged is never again in the ready
\* list, also after its target instant
C9_WithdrawnNeverReady ==
    \A i \in 1..Len(get_pending_posts_ready) :
       get_pending_posts_ready[i]._id \notin withdrawnAck

\* a withdrawal was acknowledged, every target instant has elapsed, and the
\* ready list is not empty
C9_Witness ==
    /\ withdrawnAck # {}
    /\ now = MaxTime
    /\ get_pending_posts_ready # <<>>

\* ----------------------------------------------- the request path's claims
\* the items pending for a destination
PendingFor(server_id) ==
    {p \in pending_posts : p.server_id = server_id /\ p.status = "pending"}

\* C4 as stated: any two pending items of one destination have target
\* instants at least the destination's min-gap apart
C4_PendingSpaced ==
    \A p, q \in pending_posts :
       p # q /\ p.server_id = q.server_id
         /\ p.status = "pending" /\ q.status = "pending"
       => Abs(p.scheduled_time - q.scheduled_time)
             >= get_server_config(p.server_id).min_time_gap

\* C4 amended: the spacing is checked when the time is typed, not when the
\* item is inserted: a time that is accepted for a destination is at least
\* the destination's min-gap away from every item pending for it at that step
C4_AcceptedTimeSpaced ==
    [][\A u \in Users :
         /\ user_data[u].waiting_post_time
         /\ ~user_data'[u].waiting_post_time
         /\ user_data'[u].scheduled_post_time_str = Some("at")
         => \A p \in PendingFor(Val(user_data[u].post_server_id)) :
               Abs(Val(user_data'[u].scheduled_post_time) - p.scheduled_time)
                 >= get_server_config(p.server_id).min_time_gap]_vars

\* a typed time has just been accepted, for the one operator who is at the
\* content step, while an item is pending for the destination
C4_Witness ==
    /\ reply.text = "Time Confirmed"
    /\ \E u \in Users :
          /\ user_data[u].waiting_post_content
          /\ user_data[u].scheduled_post_time_str = Some("at")
          /\ \A v \in Users \ {u} : ~user_data[v].waiting_post_content
          /\ PendingFor(Val(user_data[u].post_server_id)) # {}

\* the items pending for the destination of u's request that are closer than
\* the min-gap to the instant t
ConflictingWith(u, t) ==
    LET server_id == Val(user_data[u].post_server_id)
    IN  {p \in PendingFor(server_id) :
           Abs(t - p.scheduled_time) < get_server_config(server_id).min_time_gap}

FirstCandidate(u, t) ==
    LET server_id == Val(user_data[u].post_server_id)
        min_gap == get_server_config(server_id).min_time_gap
        mine == {i \in 1..Len(posts) : posts[i].server_id = server_id}
        latest == CHOOSE i \in mine :
                     \A j \in mine : posts[j].posted_at <= posts[i].posted_at
        early == CHOOSE p \in ConflictingWith(u, t) :
                    \A q \in ConflictingWith(u, t) :
                       p.scheduled_time <= q.scheduled_time
    IN  IF mine # {} /\ Abs(t - posts[latest].posted_at) < min_gap
        THEN posts[latest].posted_at
        ELSE early.scheduled_time

ConfirmedServer(u, b) ==
    IF user_data[u].post_server_id # None
    THEN Val(user_data[u].post_server_id) ELSE b

\* C7: the literal "now" is accepted whatever is pending or was posted, and
\* confirming it for an enabled destination posts immediately and inserts no
\* pending item
C7_NowNeverConflicts ==
    [][/\ \A inp \in TimeInputs :
            inp.kind = "now" /\ TimeInput(ADMIN_ID, inp)
            => /\ reply'.text = "Time Confirmed"
               /\ user_data'[ADMIN_ID].scheduled_post_time_str = Some("now")
               /\ user_data'[ADMIN_ID].waiting_post_content
       /\ \A b \in Servers :
            /\ user_data[ADMIN_ID].scheduled_post_time_str = Some("now")
            /\ is_server_posting_enabled(ConfirmedServer(ADMIN_ID, b))
            /\ ConfirmPost(ADMIN_ID, b)
            => /\ pending_posts' = pending_posts
               /\ reply'.text \in {"Posted Successfully",
                                    "Error Posting to Channel"}]_vars

\* "now" has just been accepted while an item is pending for the destination
\* at this very instant and the destination's last post is closer than the
\* min-gap
C7_Witness ==
    /\ reply.text = "Time Confirmed"
    /\ user_data[ADMIN_ID].scheduled_post_time_str = Some("now")
    /\ user_data[ADMIN_ID].waiting_post_content
    /\ LET server_id == Val(user_data[ADMIN_ID].post_server_id)
       IN  /\ ConflictingWith(ADMIN_ID, now) # {}
           /\ get_last_post(server_id) # None
           /\ Abs(now - Val(get_last_post(server_id)).posted_at)
                < get_server_config(server_id).min_time_gap

\* C10: a confirmation for a destination whose posting is disabled is
\* answered with the disabled outcome, and delivers, inserts and records
\* nothing
C10_DisabledRejected ==
    [][\A b \in Servers :
         /\ ~server_config[ConfirmedServer(ADMIN_ID, b)].posting_enabled
         /\ ConfirmPost(ADMIN_ID, b)
         => /\ reply'.text = "Posting Disabled"
            /\ UNCHANGED <<channel, pending_posts, posts, nextId>>]_vars

\* a confirmation of a staged request has just been answered with the
\* disabled outcome
C10_Witness ==
    /\ reply.text = "Posting Disabled"
    /\ user_data[ADMIN_ID].waiting_post_confirmation
    /\ ~server_config[Val(user_data[ADMIN_ID].post_server_id)].posting_enabled

\* ------------------------------------------- the dispatcher's claims, II
\* C11: a tick does not deliver a ready item whose destination has posting
\* disabled at the time of the tick: the dispatcher never holds a delivered
\* message for a head item whose destination is disabled (destinations are
\* switched only between ticks under SpecDisable)
C11_DisabledNotDelivered ==
    pc = "notify" /\ channel_message_id # None
    => is_server_posting_enabled(Head(tickList).server_id)

\* --------------------------------------------------- the resolver's claims
\* the calendar day of a wall clock
DayOf(w) == w \div SecPerDay

\* the time of day HH:MM:00 of a text, in seconds from midnight
TimeOfDay(text) == text.hour * SecPerHour + text.minute * SecPerMin

\* C12: a bare HH:MM resolves to the instant with that hour and minute in the
\* display timezone that is strictly after the current instant and at most
\* one day after it: today when today's HH:MM is strictly after now,
\* otherwise the next calendar day; it is accepted, never a past instant
C12_BareTimeResolves ==
    [][\A text \in TimeTexts :
         text.form = "time" /\ MatchesTime(text) /\ TimeTyped(ADMIN_ID, text)
         => LET r == Val(user_data'[ADMIN_ID].scheduled_post_time)
                local == astimezone_ist(r)
                current == astimezone_ist(now)
            IN  /\ reply'.text = "Time Confirmed"
                /\ r > now /\ r <= now + SecPerDay
                /\ Fields(local).hour = text.hour
                /\ Fields(local).minute = text.minute
                /\ Fields(local).second = 0
                /\ IF TimeOfDay(text) > current % SecPerDay
                   THEN DayOf(local) = DayOf(current)
                   ELSE DayOf(local) = DayOf(current) + 1]_vars

\* a time has just been accepted that lies on the next calendar day, in the
\* next year, at a time of day that today has passed
C12_Witness ==
    /\ reply.text = "Time Confirmed"
    /\ user_data[ADMIN_ID].scheduled_post_time_str = Some("at")
    /\ LET local == astimezone_ist(Val(user_data[ADMIN_ID].scheduled_post_time))
           current == astimezone_ist(now)
       IN  /\ DayOf(local) = DayOf(current) + 1
           /\ Fields(local).year = Fields(current).year + 1
           /\ local % SecPerDay < current % SecPerDay
           /\ current % SecPerMin # 0

\* the year a date text stands for: the year typed, or the current year of
\* the display timezone
YearTyped(text) ==
    IF text.year # None THEN Val(text.year)
    ELSE Fields(astimezone_ist(now)).year

\* the date of a text exists in the calendar
DateExists(text) ==
    text.month \in 1..MonthsPerYear /\ text.day \in 1..DaysPerMonth

\* the instant a date text with an existing date stands for
Resolved(text) ==
    astimezone_utc((YearTyped(text) - 1) * SecPerYear
                   + (text.month - 1) * SecPerMonth
                   + (text.day - 1) * SecPerDay + TimeOfDay(text))

\* C13: a date + time input gets the past-time error exactly when the instant
\* it resolves to is strictly before the current instant, and otherwise that
\* instant is staged; on the past-time error and on a format error no time is
\* staged, nothing is inserted and the session keeps waiting for a time; the
\* bare-time form never gets the past-time error
C13_PastTimeError ==
    [][\A text \in TimeTexts :
         TimeTyped(ADMIN_ID, text)
         => /\ text.form = "date" /\ MatchesTime(text) /\ DateExists(text)
               => /\ reply'.text = "Date/Time in the Past"
                       <=> Resolved(text) < now
                  /\ Resolved(text) >= now
                       => /\ user_data'[ADMIN_ID].scheduled_post_time
                               = Some(Resolved(text))
                          /\ Fields(astimezone_ist(Resolved(text)))
                               = [year |-> YearTyped(text), month |-> text.month,
                                  day |-> text.day, hour |-> text.hour,
                                  minute |-> text.minute, second |-> 0]
            /\ text.form = "other" \/ ~MatchesTime(text)
               => reply'.text = "Invalid format"
            /\ reply'.text \in {"Date/Time in the Past", "Invalid format"}
               => /\ UNCHANGED <<user_data, pending_posts, nextId>>
                  /\ user_data'[ADMIN_ID].waiting_post_time
                  /\ user_data'[ADMIN_ID].scheduled_post_time = None
            /\ text.form = "time"
               => reply'.text # "Date/Time in the Past"]_vars

\* a date has just been refused as past within the minute it names: the
\* session still waits for a time and nothing is staged
C13_Witness ==
    /\ reply.text = "Date/Time in the Past"
    /\ user_data[ADMIN_ID].waiting_post_time
    /\ user_data[ADMIN_ID].scheduled_post_time = None
    /\ pending_posts = {}
    /\ astimezone_ist(now) % SecPerMin # 0

\* ------------------------------------------------------ the ladder's claims
\* the channel message the dispatcher holds the id of
Delivered == channel[Val(channel_message_id)]

\* C14: when every delivery call that carries the destination's markup is
\* rejected as invalid URL and the content without markup is accepted, the
\* dispatch of the item makes the two calls with markup, then the call
\* without, which delivers the content with no markup; nothing is logged as
\* an error for the item, and with the storage at work the item is marked sent
C14_InvalidMarkupFallsBack ==
    [][/\ /\ pc = "send" /\ rendered.reply_markup # None
          /\ stage \in {<<1, 1>>, <<1, 2>>}
          /\ DeliveryResult("invalid_url")
          => /\ pc' = "send" /\ tickList' = tickList
             /\ stage' = <<1, stage[2] + 1>>
             /\ AttemptMarkup = rendered.reply_markup
             /\ logged' = NoLog /\ channel' = channel
       /\ /\ pc = "send" /\ rendered.reply_markup # None
          /\ stage = <<1, 3>>
          /\ DeliveryResult("ok")
          => /\ pc' = "notify" /\ tickList' = tickList
             /\ channel' = Append(channel,
                  [chat |-> Head(tickList).server_id,
                   item |-> Head(tickList)._id,
                   text |-> rendered.full_content, markup |-> None,
                   at |-> now])
             /\ logged' = NoLog
       /\ /\ pc = "notify" /\ channel_message_id # None
          /\ NotifyResult(TRUE, TRUE)
          => /\ \A p \in pending_posts' :
                   p._id = Head(tickList)._id => p.status = "sent"
             /\ \A i \in 1..Len(logged') :
                   logged'[i]._id # Head(tickList)._id]_vars

\* the third call of the ladder has just delivered, without markup, the
\* content of an item whose destination has a button
C14_Witness ==
    /\ pc = "notify" /\ channel_message_id # None
    /\ rendered.reply_markup # None
    /\ ncalls = 3
    /\ Delivered.markup = None
    /\ Delivered.text = rendered.full_content

\* ------------------------------------------------------ rendering's claim
\* the content the admin's request holds: the caption of the photo, or the text
StagedContent ==
    IF user_data[ADMIN_ID].post_photo_id # None
    THEN user_data[ADMIN_ID].post_caption
    ELSE user_data[ADMIN_ID].post_text_content

\* C15: the content a channel receives, from a tick (item > 0) or from an
\* immediate post, is the base text, a blank line and the footer when the
\* destination has a footer ("Hello" and "Thanks!" give "Hello\n\nThanks!"),
\* the footer alone when the base text is empty, and exactly the base text
\* when the footer is empty
C15_RenderedContent ==
    [][Len(channel') = Len(channel) + 1
       => LET m == channel'[Len(channel')]
              footer == server_config[m.chat].footer_text
              base == IF m.item > 0 THEN Head(tickList).message_text
                      ELSE StagedContent
          IN  /\ footer = "" => m.text = base
              /\ footer # "" /\ base = "" => m.text = footer
              /\ footer # "" /\ base # ""
                 => m.text = base \o "\n\n" \o footer
              /\ footer = "Thanks!" /\ base = "Hello"
                 => m.text = "Hello\n\nThanks!"]_vars

\* a channel received the footer alone from an immediate photo post without
\* caption, and then "Hello" with the footer from a tick
C15_Witness ==
    \E j, k \in 1..Len(channel) :
       /\ channel[j].item < 0 /\ channel[j].text = "Thanks!"
       /\ channel[k].item > 0 /\ channel[k].text = "Hello\n\nThanks!"

\* ------------------------------------------------- the ladder's claims, II
\* C16: the delivery calls made for one item in one tick are a prefix of
\* [full markup, same markup, no markup]: at most three calls are made
C16_AtMostThreeCalls == ncalls <= 3

\* the head item's document in the collection
HeadDoc == {p \in pending_posts : p._id = Head(tickList)._id}

\* send_pending_post is through with the head item in this step
HeadLeft == pc' = "idle" \/ Len(tickList') < Len(tickList)

\* C17: when the first delivery call for an item fails with not-found,
\* transient or other, no further call is made for the item in the tick (one
\* call was made when the failure is logged) and the item remains pending
C17_NoRetryAfterOtherFailure ==
    [][\A o \in Failures \ {"invalid_url"} :
         pc = "send" /\ stage = <<1, 1>> /\ DeliveryResult(o)
         => /\ HeadLeft
            /\ logged' # NoLog
            /\ logged'[1] = ErrorSending(Head(tickList), o, 1)
            /\ channel' = channel /\ posts' = posts
            /\ pending_posts' = pending_posts
            /\ HeadDoc # {}
            /\ \A p \in HeadDoc : p.status = "pending"]_vars

\* an item was just given up after one call that failed as transient, and it
\* is still pending
C17_Witness ==
    /\ logged # NoLog
    /\ logged[1].e = "transient" /\ logged[1].calls = 1
    /\ \E p \in pending_posts :
          p._id = logged[1]._id /\ p.status = "pending"

\* C18: a first attempt that fails as Transient is followed by a further
\* delivery attempt for the item in the same tick: no item is given up with a
\* Transient failure after a single call
C18_TransientRetried ==
    \A i \in 1..Len(logged) :
       logged[i].e = "transient" => logged[i].calls > 1

\* C19: when the last delivery call of the ladder fails for an item, the item
\* keeps status pending with its document unchanged (nothing counts the
\* failed ticks), no PostRecord is created, nothing reaches the channel, the
\* author notification is not sent, and the item is in the ready list again
C19_FailedStaysPending ==
    [][\A o \in Failures :
         pc = "send" /\ LadderNext(o) = <<0, 0>> /\ DeliveryResult(o)
         => /\ HeadLeft
            /\ pending_posts' = pending_posts
            /\ posts' = posts /\ channel' = channel
            /\ HeadDoc # {}
            /\ \A p \in HeadDoc :
                  /\ p.status = "pending"
                  /\ \E i \in 1..Len(get_pending_posts_ready') :
                        get_pending_posts_ready'[i] = p]_vars

\* an item whose target instant has passed was just given up after the three
\* calls of the ladder: the tick is over, nothing was delivered or recorded,
\* and the item is ready for the next tick
C19_Witness ==
    /\ pc = "idle" /\ logged # NoLog
    /\ logged[1].calls = 3
    /\ channel = <<>> /\ posts = <<>>
    /\ \E i \in 1..Len(get_pending_posts_ready) :
          /\ get_pending_posts_ready[i]._id = logged[1]._id
          /\ get_pending_posts_ready[i].scheduled_time < now

\* ------------------------------------------------------- the tick's claim
\* the loop goes on over the items l in this step: send_pending_post is
\* called for them in order until one of them reaches its first await; for
\* those before it the failure is logged, and the tick is over only when none
\* is left
Continues(l) ==
    \E k \in 0..Len(l) :
       /\ tickList' = SubSeq(l, k + 1, Len(l))
       /\ (pc' = "idle") = (k = Len(l))
       /\ \A i \in 1..k : \E j \in 1..Len(logged') :
             logged'[j] = ErrorSending(l[i], "storage", 0)

\* C20: a tick never raises and never stops early: a failure of the fetch
\* ends the tick with a log line and no other effect; a failure while
\* rendering, delivering or committing an item is logged for the item, and
\* every later item of the list the tick fetched is still processed
C20_TickGoesOn ==
    [][/\ StartTick => Continues(get_pending_posts_ready)
       /\ \A o \in Failures :
            pc = "send" /\ LadderNext(o) = <<0, 0>> /\ DeliveryResult(o)
            => /\ Continues(Tail(tickList))
               /\ logged' # NoLog
               /\ logged'[1] = ErrorSending(Head(tickList), o, ncalls)
       /\ \A saved, marked \in BOOLEAN :
            pc = "notify" /\ NotifyResult(saved, marked)
            => /\ Continues(Tail(tickList))
               /\ ~(saved /\ marked)
                  => \E j \in 1..Len(logged') :
                        logged'[j]
                          = ErrorSending(Head(tickList), "storage", ncalls)
       /\ FetchRaises
          => /\ pc' = "idle" /\ logged' # NoLog
             /\ UNCHANGED <<dbVars, channel, tickVars>>]_vars

\* the tick is at work on a later item of its list right after the delivery
\* or the commit of an earlier item failed
C20_Witness ==
    /\ pc \in {"send", "notify"}
    /\ logged # NoLog
    /\ logged[1].error = "Error sending pending post"
    /\ logged[1].calls > 0
    /\ logged[1]._id # Head(tickList)._id

\* ------------------------------------------------- the scheduler's claims
\* a wake of the interval trigger
Wake == StartTick \/ FetchRaises \/ WakeSkipped

\* C21: the dispatcher never runs two ticks concurrently: a wake of the
\* interval trigger starts a run of the job only when no run is in progress,
\* and a wake that finds a run in progress leaves that run, the storage and
\* the channels as they are.
C21_SingleFlight ==
    [][Wake => /\ Instances <= max_instances
               /\ Instances' <= max_instances
               /\ \/ pc = "idle"
                  \/ UNCHANGED <<tickVars, dbVars, channel>>]_vars

\* a wake was skipped during a tick that is waiting for a delivery
C21_Witness ==
    /\ pc = "send"
    /\ logged = <<Skipped>>

\* C22: once the bot has been started the dispatch tick keeps executing at
\* the fixed interval: whenever an item is ready, a tick comes that takes the
\* ready items up.
C22_ReadyItemsGetATick ==
    (get_pending_posts_ready # <<>>) ~> (pc # "idle")

\* item x is pending and its target instant has passed
Due(x) ==
    \E p \in pending_posts :
       p._id = x /\ p.status = "pending" /\ p.scheduled_time <= now

\* item x is sent and a PostRecord of one of its deliveries exists
SentWithRecord(x) ==
    /\ \E p \in pending_posts : p._id = x /\ p.status = "sent"
    /\ RecordsOf(x) # {}

\* C23: if ticks keep occurring and delivery eventually succeeds, every
\* pending item whose target instant has passed, and which is not withdrawn,
\* eventually is sent and has a PostRecord.
C23_DueEventuallySent ==
    \A x \in 1..MaxPosts : Due(x) ~> SentWithRecord(x)

\* an item is sent, with its record, at a later instant than its target,
\* after a tick in which its delivery failed
C23_Witness ==
    \E x \in 1..MaxPosts :
       /\ SentWithRecord(x)
       /\ \E k \in DeliveriesOf(x), p \in pending_posts :
             p._id = x /\ channel[k].at > p.scheduled_time

\* ------------------------------------------------- the withdrawal's claims
\* C24: once an item is sent no later operation changes or removes it: it
\* stays in the queue with status sent, and no withdrawal that names it is
\* acknowledged as successful.
C24_SentStays ==
    \A x \in sentEver :
       /\ x \notin withdrawnAck
       /\ \E p \in pending_posts : p._id = x /\ p.status = "sent"

\* ------------------------------------------------------ the order's claims
\* the list the step goes on from: the fetched list when a tick starts, the
\* list of the running tick otherwise
ListBefore == IF pc = "idle" THEN get_pending_posts_ready ELSE tickList

\* C25: within a tick the ready items are processed one at a time in
\* non-decreasing order of target instant, over all destinations: the items
\* still to be processed are a suffix of the list, and every item that has
\* left the list has a target instant no later than any item still in it.
C25_InTargetOrder ==
    [][pc' # "idle" /\ tickList' # tickList
       => LET k == Len(ListBefore) - Len(tickList')
          IN  /\ k >= 0
              /\ tickList' = SubSeq(ListBefore, k + 1, Len(ListBefore))
              /\ \A i \in 1..Len(ListBefore), j \in 1..Len(tickList') :
                    i <= k + j => ListBefore[i].scheduled_time
                                   <= tickList'[j].scheduled_time]_vars

\* the tick is at its second item, which was inserted first, is for another
\* destination and has a later target instant than the item delivered
C25_Witness ==
    /\ pc = "send"
    /\ Len(tickList) = 1
    /\ Len(channel) = 1
    /\ \E p \in pending_posts :
          /\ p._id = channel[1].item
          /\ p._id > tickList[1]._id
          /\ p.server_id # tickList[1].server_id
          /\ p.scheduled_time < tickList[1].scheduled_time

\* C26: no item is delivered before its target instant: a delivery call is
\* made only for an item that was fetched with status pending and whose
\* target instant is not after now, and every message of the item in a
\* channel was sent at or after that instant.
C26_OnlyDueAttempted ==
    [][\A o \in Outcomes :
         DeliveryResult(o)
         => LET post == Head(tickList)
            IN  /\ post.status = "pending"
                /\ post.scheduled_time <= now
                /\ \A p \in pending_posts :
                      p._id = post._id
                      => p.scheduled_time = post.scheduled_time
                /\ \A k \in 1..Len(channel') :
                      channel'[k].item = post._id
                      => channel'[k].at >= post.scheduled_time]_vars

\* a tick at instant 0 delivered the item due at 0 and left the item due at 1,
\* which a later tick delivered at instant 1
C26_Witness ==
    /\ Len(channel) = 2
    /\ channel[1].at = 0
    /\ channel[2].at = 1
    /\ \A k \in 1..2 :
          \E p \in pending_posts :
             p._id = channel[k].item /\ p.scheduled_time = channel[k].at

\* ------------------------------------------------- the conflict check's claims
\* the instants a proposal for the destination is compared with: the instant
\* of its most recent PostRecord and the target of each of its pending items
CandidateInstants(server_id) ==
    {p.scheduled_time : p \in PendingFor(server_id)}
      \cup {posts[i].posted_at :
              i \in {i \in 1..Len(posts) :
                       /\ posts[i].server_id = server_id
                       /\ \A j \in 1..Len(posts) :
                             posts[j].server_id = server_id
                             => posts[j].posted_at <= posts[i].posted_at}}

\* the candidates closer than the destination's min-gap to the instant t
TooClose(server_id, t) ==
    {c \in CandidateInstants(server_id) :
       Abs(t - c) < server_config[server_id].min_time_gap}

\* C27: the conflict check returns Ok exactly when every candidate instant
\* differs from the proposal by at least the min-gap; otherwise it returns a
\* conflict whose suggestion is a conflicting candidate plus the min-gap.  So
\* a proposal exactly min-gap away from every candidate is accepted.
C27_ConflictCheckExact ==
    \A server_id \in Servers, t \in Times :
       LET conflict == check_time_conflict(server_id, t)
           check == TimeSlotCheck(server_id, t)
           min_gap == server_config[server_id].min_time_gap
       IN  /\ conflict.ok <=> TooClose(server_id, t) = {}
           /\ ~conflict.ok
                => \E c \in TooClose(server_id, t) :
                      conflict.next_available = Some(c + min_gap)
           /\ check.busy <=> TooClose(server_id, t) # {}
           /\ check.busy
                => \E c \in TooClose(server_id, t) :
                      check.next_available = Some(c + min_gap)

\* a proposal was accepted that is exactly the min-gap away from a candidate
C27_Witness ==
    /\ reply.text = "Time Confirmed"
    /\ user_data[ADMIN_ID].scheduled_post_time_str = Some("at")
    /\ LET server_id == Val(user_data[ADMIN_ID].post_server_id)
           t == Val(user_data[ADMIN_ID].scheduled_post_time)
       IN  /\ server_config[server_id].min_time_gap > 0
           /\ \E c \in CandidateInstants(server_id) :
                 Abs(t - c) = server_config[server_id].min_time_gap

\* ------------------------------------------------ the withdrawal's claims, II
\* the answers that acknowledge a withdrawal
Acknowledged == {"Post deleted successfully", "Post withdrawn successfully"}

\* C28: a withdrawal takes effect only when the requester is the item's author
\* or the admin: a request by anybody else leaves the queue unchanged and is
\* not acknowledged, and every withdrawal that removes an item or is
\* acknowledged was asked for by the item's author or the admin.
C28_OnlyAuthorOrAdmin ==
    [][\A u \in Users, id \in 1..(nextId - 1) :
         DeletePending(u, id) \/ WithdrawPost(u, id)
         => \/ /\ pending_posts' = pending_posts
               /\ withdrawnAck' = withdrawnAck
               /\ reply'.text \notin Acknowledged
            \/ /\ find_one(id) # None
               /\ u = ADMIN_ID \/ Val(find_one(id)).user_id = u]_vars

\* a manager asked for the withdrawal of an item of the admin, was refused,
\* and the item is still in the queue
C28_Witness ==
    /\ reply.text = "You can only delete your own posts"
    /\ \E p \in pending_posts : p.user_id = ADMIN_ID
    /\ withdrawnAck = {}

\* ------------------------------------------------ the notification's claim
\* the storage's part of the commit of the head item, which follows the
\* author notification
CommitOf(post) ==
    /\ posts' = save_post(post.server_id, post.user_id, channel_message_id)
    /\ pending_posts' = mark_pending_post_sent(post._id)

\* C29: a failure of the author notification after a delivery neither
\* prevents nor reverts the commit and does not reach the tick: when the
\* notification raises and the storage works, the PostRecord is saved and the
\* item marked sent as after a notification that succeeded, the delivered
\* message stays in the channel, nothing is logged as an error of the item,
\* and the tick goes on with the items that are left.
C29_NotificationFailureIgnored ==
    [][NotifyResult(TRUE, TRUE) /\ logged' # NoLog /\ logged'[1] = CouldNotNotify
       => /\ CommitOf(Head(tickList))
          /\ channel' = channel
          /\ \A i \in 1..Len(logged') :
                logged'[i]._id # Head(tickList)._id
          /\ Continues(Tail(tickList))]_vars

\* the notification of the author failed and the item is sent, with its
\* record and its message
C29_Witness ==
    /\ logged # NoLog
    /\ logged[1] = CouldNotNotify
    /\ \E x \in sentEver :
          /\ SentWithRecord(x)
          /\ posts[Len(posts)].channel_message_id = Some(Len(channel))
          /\ channel[Len(channel)].item = x

\* ------------------------------------------------------- the min-gap's claim
\* C30: changing a destination's min-gap leaves every pending item and every
\* PostRecord as it is, leaves the other destinations' configurations and
\* conflict decisions as they are, and the checks for the destination made
\* after the change use the new value.
C30_GapChangeFrame ==
    [][\A s \in Servers, m \in Gaps :
         UpdateTimeGap(ADMIN_ID, s, m)
         => /\ pending_posts' = pending_posts
            /\ posts' = posts
            /\ \A d \in Servers \ {s} :
                  /\ server_config'[d] = server_config[d]
                  /\ \A t \in Times :
                        /\ check_time_conflict(d, t)' = check_time_conflict(d, t)
                        /\ TimeSlotCheck(d, t)' = TimeSlotCheck(d, t)
            /\ \A t \in Times :
                  /\ check_time_conflict(s, t)'.ok
                       <=> \A c \in CandidateInstants(s) : Abs(t - c) >= m
                  /\ TimeSlotCheck(s, t)'.busy
                       <=> \E c \in CandidateInstants(s) : Abs(t - c) < m]_vars

\* the gap of destination 1 was raised above the distance of two of its
\* pending items, which are still pending, and the gap of destination 2 is
\* another one
C30_Witness ==
    /\ reply.text = "Time Gap Updated"
    /\ server_config[2].min_time_gap # server_config[1].min_time_gap
    /\ \E p, q \in PendingFor(1) :
          /\ p # q
          /\ Abs(p.scheduled_time - q.scheduled_time)
               < server_config[1].min_time_gap

\* -------------------------------------------------------- the markup's claim
\* slot 1 (slot 2) of the configuration has a label and a URL
HasButton1(config_data) ==
    config_data.button1_text # "" /\ config_data.button1_url # ""

HasButton2(config_data) ==
    config_data.button2_text # "" /\ config_data.button2_url # ""

\* the markup the claim describes: one row per slot that has both
ExpectedMarkup(config_data) ==
    LET row1 == IF HasButton1(config_data)
                THEN <<[text |-> config_data.button1_text,
                        url |-> config_data.button1_url]>> ELSE <<>>
        row2 == IF HasButton2(config_data)
                THEN <<[text |-> config_data.button2_text,
                        url |-> config_data.button2_url]>> ELSE <<>>
    IN  IF ~HasButton1(config_data) /\ ~HasButton2(config_data)
        THEN None ELSE Some(row1 \o row2)

\* C31: the markup built at render time has a button for slot 1 exactly when
\* slot 1's label and URL are both non-empty, and one for slot 2 exactly when
\* slot 2's are, each slot decided by itself and whatever the URL is; when no
\* slot contributes the content goes out with no markup.  This is the markup
\* of the dispatcher's first delivery call, and every message in a channel
\* carries it or, after the fallback of the ladder, none.
C31_MarkupBySlot ==
    /\ \A s \in Servers :
          BuildMarkup(server_config[s]) = ExpectedMarkup(server_config[s])
    /\ pc = "send"
         => rendered.reply_markup
              = ExpectedMarkup(server_config[Head(tickList).server_id])
    /\ \A k \in 1..Len(channel) :
          /\ channel[k].markup
               \in {None, ExpectedMarkup(server_config[channel[k].chat])}
          /\ ExpectedMarkup(server_config[channel[k].chat]) = None
               => channel[k].markup = None

\* a message went out with the button of slot 2 alone, whose URL is not one
\* the transport takes for valid, while slot 1 has a label and no URL
C31_Witness ==
    /\ server_config[1].button1_text # ""
    /\ server_config[1].button1_url = ""
    /\ \E k \in 1..Len(channel) :
          /\ channel[k].chat = 1
          /\ channel[k].markup = Some(<<[text |-> "Go", url |-> "http://"]>>)

\* ------------------------------------------------------ the blocking's claim
\* C32: while a tick waits for a delivery or a notification call, a schedule
\* confirmation and a withdrawal can be handled and complete; and whenever no
\* tick is running and an item is ready, also after a tick whose delivery
\* failed, a tick can start.
C32_RequestsNotBlocked ==
    /\ pc \in {"send", "notify"}
         => /\ \A id \in 1..(nextId - 1) :
                  find_one(id) # None
                  => ENABLED (/\ HandleDelete(ADMIN_ID, id)
                              /\ pending_posts' = delete_pending_post(id))
            /\ /\ user_data[ADMIN_ID].waiting_post_confirmation
               /\ user_data[ADMIN_ID].scheduled_post_time # None
               /\ nextId <= MaxPosts
               => \/ Val(user_data[ADMIN_ID].scheduled_post_time) <= now
                  \/ ~is_server_posting_enabled(1)
                  \/ ENABLED (/\ HandleConfirm(ADMIN_ID, 1)
                              /\ nextId' = nextId + 1)
    /\ pc = "idle" /\ get_pending_posts_ready # <<>> => ENABLED StartTick

\* a schedule confirmation completed while the tick was waiting for a
\* delivery call that came after a failed one
C32_Witness ==
    /\ pc = "send"
    /\ ncalls > 1
    /\ reply.text = "Post Scheduled"

\* ------------------------------------------------- the commit's claim
\* C33: a PostRecord is created and an item is marked sent only if a channel
\* accepted the content: every PostRecord refers to a message of a channel,
\* and every item marked sent has a message in a channel.
C33_CommitOnlyIfAccepted ==
    /\ \A i \in 1..Len(posts) :
          /\ posts[i].channel_message_id # None
          /\ Val(posts[i].channel_message_id) \in 1..Len(channel)
    /\ \A x \in sentEver : DeliveriesOf(x) # {}

\* ------------------------------------------------------ the session's claims
\* the pending item the step inserts
Inserted == CHOOSE p \in pending_posts' : p._id = nextId

\* C34: a pending item is inserted for destination D with target instant T
\* only if the last time check that passed in the operator's session was the
\* one for D and T.
C34_InsertedAsChecked ==
    [][\A b \in Servers :
         ConfirmPost(ADMIN_ID, b) /\ nextId' = nextId + 1
         => /\ user_data[ADMIN_ID].checked_for = Some(Inserted.server_id)
            /\ user_data[ADMIN_ID].scheduled_post_time
                 = Some(Inserted.scheduled_time)]_vars


\* the staged request of u is absent: a confirmation succeeded or a
\* cancellation cleared it, and nothing was staged since
NothingStaged(u) ==
    /\ ~user_data[u].waiting_post_confirmation
    /\ user_data[u].scheduled_post_time_str = None
    /\ user_data[u].scheduled_post_time = None
    /\ user_data[u].post_photo_id = None
    /\ user_data[u].post_text_content = ""

\* C35: pressing confirm again when the staged request is absent (after a
\* confirmation succeeded or a cancellation cleared it) delivers nothing,
\* inserts no pending item and creates no PostRecord.
C35_StaleConfirmInert ==
    [][\A b \in Servers :
         NothingStaged(ADMIN_ID) /\ ConfirmPost(ADMIN_ID, b)
         => UNCHANGED <<channel, posts, pending_posts>>]_vars


\* the instant s is later than the proposal t and is not closer than the
\* destination's min-gap to the conflicting candidate it was computed from
ClearOf(server_id, t, s) ==
    /\ s > t
    /\ \E c \in TooClose(server_id, t) :
          /\ s = c + server_config[server_id].min_time_gap
          /\ ~(Abs(s - c) < server_config[server_id].min_time_gap)

\* C36: when the conflict check rejects a proposal, the instant it suggests
\* is strictly later than the proposed instant and does not conflict with
\* the candidate that produced it; so does the time-slot check of the
\* handler that shows the suggestion.
C36_SuggestionLaterAndClear ==
    \A server_id \in Servers, t \in Times :
       LET conflict == check_time_conflict(server_id, t)
           check == TimeSlotCheck(server_id, t)
       IN  /\ ~conflict.ok
                => ClearOf(server_id, t, Val(conflict.next_available))
           /\ check.busy
                => ClearOf(server_id, t, Val(check.next_available))

\* a proposal was rejected because of the destination's last post, nothing
\* being pending for the destination, and the suggestion shown is later than
\* every instant that conflicts with that post
C36_Witness ==
    /\ reply.text = "Time Slot Busy"
    /\ user_data[ADMIN_ID].waiting_post_time
    /\ LET server_id == Val(user_data[ADMIN_ID].post_server_id)
           last_post == get_last_post(server_id)
       IN  /\ PendingFor(server_id) = {}
           /\ last_post # None
           /\ server_config[server_id].min_time_gap > 1
           /\ reply.next_available
                = Some(Val(last_post).posted_at
                       + server_config[server_id].min_time_gap)


\* The admin's requests, "now" or for a time, one at a time, while the clock
\* moves: a staged time can elapse before the confirmation.  The dispatcher
\* is not running.
NextElapse ==
    \/ AdvanceTime
    \/ \E s \in Servers : Idle(ADMIN_ID) /\ SelectServer(ADMIN_ID, s)
    \/ \E inp \in {i \in TimeInputs : i.kind \in {"now", "at"}} :
          TimeInput(ADMIN_ID, inp)
    \/ ContentText(ADMIN_ID, "Hello")
    \/ \E b \in Servers : ConfirmPost(ADMIN_ID, b)

SpecElapse == InitRace /\ [][NextElapse]_vars

\* the request staged by u is for a later time: it is not "now" and its
\* target is strictly after the current instant
StagedLater(u) ==
    /\ user_data[u].scheduled_post_time_str \notin {None, Some("now")}
    /\ user_data[u].scheduled_post_time # None
    /\ Val(user_data[u].scheduled_post_time) > now

\* C37: a confirmation enqueues an item only when the request was not "now"
\* and its target is strictly after the current instant, and then delivers
\* nothing; every other confirmation enqueues nothing and takes the immediate
\* path.  So every item is inserted with a target strictly later than the
\* instant of its creation.
C37_EnqueuedIffLater ==
    [][\A b \in Servers :
         ConfirmPost(ADMIN_ID, b)
         => /\ nextId' = nextId + 1
                => /\ StagedLater(ADMIN_ID)
                   /\ pending_posts' = pending_posts \cup {Inserted}
                   /\ Inserted.scheduled_time
                        = Val(user_data[ADMIN_ID].scheduled_post_time)
                   /\ Inserted.scheduled_time > now
                   /\ reply'.text = "Post Scheduled"
            /\ nextId' = nextId => pending_posts' = pending_posts
            /\ StagedLater(ADMIN_ID) => UNCHANGED <<channel, posts>>
            /\ StagedLater(ADMIN_ID) /\ reply'.text \notin {"Posting Disabled", "Error"}
                => nextId' = nextId + 1
            /\ ~StagedLater(ADMIN_ID)
                => reply'.text \in {"Posting Disabled", "Error",
                                    "Posted Successfully",
                                    "Error Posting to Channel"}]_vars

\* a time was staged, it elapsed before the confirmation, and the
\* confirmation delivered the post to the channel at once and enqueued
\* nothing (the storage then refused the PostRecord, so the session still
\* holds the staged time)
C37_Witness ==
    /\ reply.text = "Error Posting to Channel"
    /\ user_data[ADMIN_ID].scheduled_post_time_str = Some("at")
    /\ Val(user_data[ADMIN_ID].scheduled_post_time) <= now
    /\ now > 0
    /\ pending_posts = {}
    /\ channel # <<>>
    /\ channel[Len(channel)].at = now


\* the request staged in the session of u: the time, as typed and as an
\* instant, and the content
Staged(ud) ==
    <<ud.waiting_post_confirmation, ud.scheduled_post_time_str,
      ud.scheduled_post_time, ud.post_photo_id, ud.post_caption,
      ud.post_text_content, ud.post_server_id>>

\* C38: when the delivery of an immediate post fails, the confirmation
\* creates no PostRecord and no pending item and leaves the staged time and
\* content in the session as they were; the error shown to the operator is
\* its only effect.
C38_FailedPostKeepsSession ==
    [][\A b \in Servers :
         /\ ConfirmPost(ADMIN_ID, b)
         /\ reply'.text = "Error Posting to Channel"
         /\ channel' = channel
         => /\ posts' = posts
            /\ pending_posts' = pending_posts
            /\ nextId' = nextId
            /\ Staged(user_data'[ADMIN_ID]) = Staged(user_data[ADMIN_ID])
            /\ user_data' = user_data]_vars

\* the delivery of a text posted "now" has failed: nothing reached the
\* channel, nothing was recorded or enqueued, and the session still holds the
\* request awaiting its confirmation
C38_Witness ==
    /\ reply.text = "Error Posting to Channel"
    /\ channel = <<>>
    /\ posts = <<>>
    /\ pending_posts = {}
    /\ user_data[ADMIN_ID].waiting_post_confirmation
    /\ user_data[ADMIN_ID].scheduled_post_time_str = Some("now")
    /\ user_data[ADMIN_ID].post_text_content = "Hello"


\* the delivery calls the immediate path makes for the rendered post of the
\* tick when Telegram answers its calls with the outcomes o
ImmediateCalls(o) == _send_post_to_channel(o, rendered.reply_markup).calls

\* C39: the dispatcher makes the delivery calls the immediate path makes
\* for the same configuration, content and outcomes: the call it is waiting
\* for is, at its position in the sequence and with its markup, a call of
\* the immediate path under some outcomes of the earlier calls.
C39_CallsAsImmediatePath ==
    pc = "send"
    => \E o \in OutcomeSeqs :
          /\ ncalls <= Len(ImmediateCalls(o))
          /\ ImmediateCalls(o)[ncalls] = AttemptMarkup

====
